---- MODULE Spec2Model ----
(***************************************************************************)
(* A model of the GtkGrid layout engine of gtk/gtkgrid.c: the persistent   *)
(* attachment data, the per-pass GtkGridRequest with its two GtkGridLines  *)
(* arrays, the size request solver, the space allocator and the child      *)
(* rectangle emitter.  Operators keep the names of the C functions they    *)
(* are translated from; orientations are 0 (horizontal, columns) and       *)
(* 1 (vertical, rows) as in GtkOrientation.                                *)
(***************************************************************************)
EXTENDS Integers, Sequences, FiniteSets, TLC

VARIABLES
  children,           \* priv->children: GList of GtkGridChild, head first
  row_properties,     \* priv->row_properties: GList of GtkGridRowProperties
  baseline_row,       \* priv->baseline_row
  linedata,           \* priv->linedata[2]: spacing, homogeneous
  allocated_baseline, \* the grid widget's allocated baseline (-1: none)
  allocation,         \* the grid widget's allocation: x, y, width, height
  direction,          \* gtk_widget_get_direction of the grid widget
  grid_visible,       \* _gtk_widget_get_visible of the grid widget
  request,            \* request.lines[2] of the last layout pass
  passes,             \* the lines after each step of the last gtk_grid_request_run
  ret,                \* the out-parameters of the last size query
  emitted,            \* the child allocations of the last allocate pass
  call                \* the last entry point called, with its arguments

vars == << children, row_properties, baseline_row, linedata,
           allocated_baseline, allocation, direction, grid_visible,
           request, passes, ret, emitted, call >>

persistent == << children, row_properties, baseline_row, linedata >>

----------------------------------------------------------------------------
(* C arithmetic and GLib macros                                            *)

GTK_ORIENTATION_HORIZONTAL == 0
GTK_ORIENTATION_VERTICAL == 1
Orientations == {GTK_ORIENTATION_HORIZONTAL, GTK_ORIENTATION_VERTICAL}

GTK_BASELINE_POSITION_TOP == "TOP"
GTK_BASELINE_POSITION_CENTER == "CENTER"
GTK_BASELINE_POSITION_BOTTOM == "BOTTOM"
BaselinePositions ==
  {GTK_BASELINE_POSITION_TOP, GTK_BASELINE_POSITION_CENTER, GTK_BASELINE_POSITION_BOTTOM}

GTK_SIZE_REQUEST_HEIGHT_FOR_WIDTH == "HEIGHT_FOR_WIDTH"
GTK_SIZE_REQUEST_WIDTH_FOR_HEIGHT == "WIDTH_FOR_HEIGHT"
GTK_SIZE_REQUEST_CONSTANT_SIZE == "CONSTANT_SIZE"

G_MAXINT == 2147483647
G_MININT == -G_MAXINT - 1

MAX(a, b) == IF a > b THEN a ELSE b
MIN(a, b) == IF a < b THEN a ELSE b

Abs(a) == IF a < 0 THEN -a ELSE a

\* C's integer division truncates toward zero, TLA+'s \div rounds down.
CDiv(a, b) ==
  IF (a >= 0) = (b > 0) THEN Abs(a) \div Abs(b) ELSE -(Abs(a) \div Abs(b))

\* C's remainder has the sign of the dividend.
CMod(a, b) == a - b * CDiv(a, b)

\* a two-element C array indexed by orientation
\* With(e, LAMBDA x : body) is body with x standing for the value of e, as a
\* local variable that is assigned once
With(x, B(_)) == B(x)

Pair(h, v) == [o \in Orientations |-> IF o = GTK_ORIENTATION_HORIZONTAL THEN h ELSE v]

----------------------------------------------------------------------------
(* The child widgets, seen through the calls the grid makes on them        *)

_gtk_widget_get_visible(w) == w.visible

\* gtk_widget_compute_expand: a widget that is not showing never expands
gtk_widget_compute_expand(w, orientation) == w.visible /\ w.expand[orientation]

\* The answer of a child widget to a size request in `orientation`, for the
\* size for_size in the opposite orientation (-1: unconstrained).  A widget
\* with wrap > 0 needs that much more when it is given less than its natural
\* size in the opposite orientation (a wrapping label).
WidgetRequest(w, orientation, for_size) ==
  LET more == IF for_size # -1 /\ for_size < w.natural[1 - orientation]
              THEN w.wrap ELSE 0
      vert == orientation = GTK_ORIENTATION_VERTICAL
  IN [minimum |-> w.minimum[orientation] + more,
      natural |-> w.natural[orientation] + more,
      minimum_baseline |-> IF vert THEN w.minimum_baseline ELSE -1,
      natural_baseline |-> IF vert THEN w.natural_baseline ELSE -1]

----------------------------------------------------------------------------
(* GtkGridLine, GtkGridLines, GtkGridRequest                               *)

\* memset (lines, 0, n * sizeof (GtkGridLine))
ZeroLine ==
  [minimum |-> 0, natural |-> 0,
   minimum_above |-> 0, minimum_below |-> 0,
   natural_above |-> 0, natural_below |-> 0,
   position |-> 0, allocation |-> 0, allocated_baseline |-> 0,
   need_expand |-> FALSE, expand |-> FALSE, empty |-> FALSE]

ZeroLines(n) == [i \in 0 .. n - 1 |-> ZeroLine]

NLines(lines) == lines.max - lines.min

\* the indices of the lines array a loop "for (i = from; i < to; i++)" visits
Range(from, to) == from .. to - 1

RECURSIVE SumOver(_, _)
SumOver(f, S) ==
  IF S = {} THEN 0
  ELSE LET x == CHOOSE x \in S : TRUE IN f[x] + SumOver(f, S \ {x})

RECURSIVE MaxOver(_, _, _)
MaxOver(f, S, start) ==
  IF S = {} THEN start
  ELSE LET x == CHOOSE x \in S : TRUE IN MAX(f[x], MaxOver(f, S \ {x}, start))

\* request->lines[orientation] replaced by `lines`
SetLines(req, orientation, lines) ==
  [req EXCEPT !.lines[orientation].lines = lines]

----------------------------------------------------------------------------
(* gtk_grid_get_row_baseline_position and the row property list            *)

RECURSIVE find_row_properties(_, _)
find_row_properties(props, row) ==
  IF props = << >> THEN << >>
  ELSE IF Head(props).row = row THEN << Head(props) >>
  ELSE find_row_properties(Tail(props), row)

gtk_grid_row_properties_default ==
  [row |-> 0, baseline_position |-> GTK_BASELINE_POSITION_CENTER]

get_row_properties_or_default(grid, row) ==
  LET props == find_row_properties(grid.row_properties, row)
  IN IF props # << >> THEN props[1] ELSE gtk_grid_row_properties_default

gtk_grid_get_row_baseline_position(grid, row) ==
  get_row_properties_or_default(grid, row).baseline_position

----------------------------------------------------------------------------
(* The size request solver                                                 *)

\* as count_lines_loop, but over the visible children only
RECURSIVE count_lines_loop_of_visible(_, _)
count_lines_loop_of_visible(list, acc) ==
  IF list = << >> THEN acc
  ELSE LET attach == Head(list).attach
       IN count_lines_loop_of_visible(Tail(list),
            IF ~ _gtk_widget_get_visible(Head(list).widget) THEN acc
            ELSE [o \in Orientations |->
                    [min |-> MIN(acc[o].min, attach[o].pos),
                     max |-> MAX(acc[o].max, attach[o].pos + attach[o].span)]])

\* Calculates the min and max numbers for both orientations.
RECURSIVE count_lines_loop(_, _)
count_lines_loop(list, acc) ==
  IF list = << >> THEN acc
  ELSE LET attach == Head(list).attach
       IN count_lines_loop(Tail(list),
            [o \in Orientations |->
               [min |-> MIN(acc[o].min, attach[o].pos),
                max |-> MAX(acc[o].max, attach[o].pos + attach[o].span)]])

gtk_grid_request_count_lines(grid) ==
  count_lines_loop(grid.children,
                   [o \in Orientations |-> [min |-> G_MAXINT, max |-> G_MININT]])

\* request.grid = grid; count_lines; g_newa + memset of lines[orientation]
\* for each orientation in `which`.  The lines array of an orientation that
\* is not in `which` is never allocated and never read.
NewRequest(grid, which) ==
  LET mm == gtk_grid_request_count_lines(grid)
  IN [grid |-> grid,
      lines |-> [o \in Orientations |->
                   [min |-> mm[o].min, max |-> mm[o].max,
                    lines |-> IF o \in which
                              THEN ZeroLines(mm[o].max - mm[o].min)
                              ELSE << >>]]]

RECURSIVE request_init_loop(_, _, _, _)
request_init_loop(list, orientation, min, L) ==
  IF list = << >> THEN L
  ELSE LET child == Head(list)
           attach == child.attach[orientation]
       IN request_init_loop(Tail(list), orientation, min,
            IF attach.span = 1 /\ gtk_widget_compute_expand(child.widget, orientation)
            THEN [L EXCEPT ![attach.pos - min].expand = TRUE]
            ELSE L)

\* Sets line sizes to 0 and marks lines as expand
\* if they have a non-spanning expanding child.
gtk_grid_request_init(req, orientation) ==
  LET lines == req.lines[orientation]
      reset == [i \in DOMAIN lines.lines |->
                  [lines.lines[i] EXCEPT
                     !.minimum = 0, !.natural = 0,
                     !.minimum_above = -1, !.minimum_below = -1,
                     !.natural_above = -1, !.natural_below = -1,
                     !.expand = FALSE, !.empty = TRUE]]
  IN SetLines(req, orientation,
              request_init_loop(req.grid.children, orientation, lines.min, reset))

\* Sums allocations for lines spanned by child and their spacing.
compute_allocation_for_child(req, child, orientation) ==
  LET ld == req.grid.linedata[orientation]
      lines == req.lines[orientation]
      attach == child.attach[orientation]
      alloc == [i \in Range(0, attach.span) |->
                  lines.lines[attach.pos - lines.min + i].allocation]
  IN (attach.span - 1) * ld.spacing + SumOver(alloc, DOMAIN alloc)

compute_request_for_child(req, child, orientation, contextual) ==
  IF contextual
  THEN WidgetRequest(child.widget, orientation,
                     compute_allocation_for_child(req, child, 1 - orientation))
  ELSE WidgetRequest(child.widget, orientation, -1)

\* the first loop of gtk_grid_request_non_spanning, over the children
RECURSIVE non_spanning_loop(_, _, _, _, _)
non_spanning_loop(req, orientation, contextual, list, L) ==
  IF list = << >> THEN L
  ELSE LET child == Head(list)
           attach == child.attach[orientation]
           r == compute_request_for_child(req, child, orientation, contextual)
           i == attach.pos - req.lines[orientation].min
           line == L[i]
           next ==
             IF ~ _gtk_widget_get_visible(child.widget) THEN L
             ELSE IF attach.span # 1 THEN L
             ELSE IF r.minimum_baseline # -1
             THEN [L EXCEPT ![i] =
                     [line EXCEPT
                        !.minimum_above = MAX(line.minimum_above, r.minimum_baseline),
                        !.minimum_below = MAX(line.minimum_below, r.minimum - r.minimum_baseline),
                        !.natural_above = MAX(line.natural_above, r.natural_baseline),
                        !.natural_below = MAX(line.natural_below, r.natural - r.natural_baseline)]]
             ELSE [L EXCEPT ![i] =
                     [line EXCEPT
                        !.minimum = MAX(line.minimum, r.minimum),
                        !.natural = MAX(line.natural, r.natural)]]
       IN non_spanning_loop(req, orientation, contextual, Tail(list), next)

\* baseline_line padding the part above the baseline under TOP and the part
\* below it under BOTTOM
baseline_line_swapped(line, baseline_pos) ==
  IF line.minimum_above = -1 THEN line
  ELSE
    LET minimum == MAX(line.minimum, line.minimum_above + line.minimum_below)
        natural == MAX(line.natural, line.natural_above + line.natural_below)
        l0 == [line EXCEPT !.minimum = minimum, !.natural = natural]
    IN CASE baseline_pos = GTK_BASELINE_POSITION_BOTTOM ->
              [l0 EXCEPT
                 !.minimum_below = @ + (minimum - (l0.minimum_above + l0.minimum_below)),
                 !.natural_below = @ + (natural - (l0.natural_above + l0.natural_below))]
         [] baseline_pos = GTK_BASELINE_POSITION_CENTER -> l0
         [] baseline_pos = GTK_BASELINE_POSITION_TOP ->
              [l0 EXCEPT
                 !.minimum_above = @ + (minimum - (l0.minimum_above + l0.minimum_below)),
                 !.natural_above = @ + (natural - (l0.natural_above + l0.natural_below))]

\* the body of the second loop of gtk_grid_request_non_spanning: the line's
\* size is raised to its baseline split, and the split is padded to the
\* line's size according to the row's baseline position
baseline_line(line, baseline_pos) ==
  IF line.minimum_above = -1 THEN line
  ELSE
    LET minimum == MAX(line.minimum, line.minimum_above + line.minimum_below)
        natural == MAX(line.natural, line.natural_above + line.natural_below)
        l0 == [line EXCEPT !.minimum = minimum, !.natural = natural]
    IN CASE baseline_pos = GTK_BASELINE_POSITION_TOP ->
              [l0 EXCEPT
                 !.minimum_below = @ + (minimum - (l0.minimum_above + l0.minimum_below)),
                 !.natural_below = @ + (natural - (l0.natural_above + l0.natural_below))]
         [] baseline_pos = GTK_BASELINE_POSITION_CENTER ->
              LET min_above == l0.minimum_above
                                 + CDiv(minimum - (l0.minimum_above + l0.minimum_below), 2)
                  min_below == l0.minimum_below
                                 + CDiv(minimum - (min_above + l0.minimum_below), 2)
                  nat_above == l0.natural_above
                                 + CDiv(natural - (l0.natural_above + l0.natural_below), 2)
                  nat_below == l0.natural_below
                                 + CDiv(natural - (nat_above + l0.natural_below), 2)
              IN [l0 EXCEPT !.minimum_above = min_above, !.minimum_below = min_below,
                            !.natural_above = nat_above, !.natural_below = nat_below]
         [] baseline_pos = GTK_BASELINE_POSITION_BOTTOM ->
              [l0 EXCEPT
                 !.minimum_above = @ + (minimum - (l0.minimum_above + l0.minimum_below)),
                 !.natural_above = @ + (natural - (l0.natural_above + l0.natural_below))]

\* Sets requisition to max. of non-spanning children.
\* If contextual is TRUE, requires allocations of
\* lines in the opposite orientation to be set.
gtk_grid_request_non_spanning(req, orientation, contextual) ==
  LET lines == req.lines[orientation]
      L1 == non_spanning_loop(req, orientation, contextual, req.grid.children, lines.lines)
      L2 == [i \in DOMAIN L1 |->
               baseline_line(L1[i],
                 gtk_grid_get_row_baseline_position(req.grid, i + lines.min))]
  IN SetLines(req, orientation, L2)

\* gtk_grid_request_homogeneous returning at once, as if the orientation
\* were never homogeneous
request_homogeneous_skipped(req, orientation) == req

\* Enforce homogeneous sizes.
gtk_grid_request_homogeneous(req, orientation) ==
  LET ld == req.grid.linedata[orientation]
      L == req.lines[orientation].lines
      minimum == MaxOver([i \in DOMAIN L |-> L[i].minimum], DOMAIN L, 0)
      natural == MaxOver([i \in DOMAIN L |-> L[i].natural], DOMAIN L, 0)
  IN IF ~ ld.homogeneous THEN req
     ELSE SetLines(req, orientation,
            [i \in DOMAIN L |-> [L[i] EXCEPT !.minimum = minimum, !.natural = natural]])

\* line_extras without "extra -= line_extra; expand -= 1": every receiving
\* line gets extra / expand and the remainder is lost
RECURSIVE line_extras_without_countdown(_, _, _, _, _)
line_extras_without_countdown(recv, i, span, extra, expand) ==
  IF i >= span THEN << >>
  ELSE << IF recv[i] THEN CDiv(extra, expand) ELSE 0 >>
         \o line_extras_without_countdown(recv, i + 1, span, extra, expand)

\* line_extras handing the remainder to the earliest receiving lines
RECURSIVE line_extras_earliest_first(_, _, _, _, _)
line_extras_earliest_first(recv, i, span, extra, expand) ==
  IF i >= span THEN << >>
  ELSE IF recv[i]
       THEN LET line_extra == CDiv(extra + expand - 1, expand)
            IN << line_extra >>
                 \o line_extras_earliest_first(recv, i + 1, span, extra - line_extra,
                                               expand - 1)
       ELSE << 0 >> \o line_extras_earliest_first(recv, i + 1, span, extra, expand)

\* The loop "for (i = 0; i < attach->span; i++)" that divides `extra` among
\* the spanned lines that receive (recv[i]): the amount each line i gets, as
\* the sequence of line_extra values for the lines i, i+1, ..., span-1.
RECURSIVE line_extras(_, _, _, _, _)
line_extras(recv, i, span, extra, expand) ==
  IF i >= span THEN << >>
  ELSE IF recv[i]
       THEN LET line_extra == CDiv(extra, expand)
            IN << line_extra >>
                 \o line_extras(recv, i + 1, span, extra - line_extra, expand - 1)
       ELSE << 0 >> \o line_extras(recv, i + 1, span, extra, expand)

\* ceil (total / span), as "total / span + (total % span ? 1 : 0)"
homogeneous_share(total, span) ==
  CDiv(total, span) + (IF CMod(total, span) # 0 THEN 1 ELSE 0)

\* The body of the loop of gtk_grid_request_spanning for one child: L is the
\* lines array of the orientation before, the result the array after.
request_spanning_child(req, orientation, contextual, child, L) ==
  LET ld == req.grid.linedata[orientation]
      lines == req.lines[orientation]
      attach == child.attach[orientation]
      r == compute_request_for_child(req, child, orientation, contextual)
      idx(i) == attach.pos - lines.min + i
      I == Range(0, attach.span)
      span_minimum == (attach.span - 1) * ld.spacing
                        + SumOver([i \in I |-> L[idx(i)].minimum], I)
      span_natural == (attach.span - 1) * ld.spacing
                        + SumOver([i \in I |-> L[idx(i)].natural], I)
      counted == Cardinality({i \in I : L[idx(i)].expand})
      force_expand == counted = 0
      span_expand == IF counted = 0 THEN attach.span ELSE counted
      recv == [i \in I |-> force_expand \/ L[idx(i)].expand]
      spanned(j) == j - (attach.pos - lines.min)
      m == homogeneous_share(r.minimum - (attach.span - 1) * ld.spacing, attach.span)
      n == homogeneous_share(r.natural - (attach.span - 1) * ld.spacing, attach.span)
      min_extras == line_extras(recv, 0, attach.span, r.minimum - span_minimum, span_expand)
      nat_extras == line_extras(recv, 0, attach.span, r.natural - span_natural, span_expand)
      L1 == IF ~ (span_minimum < r.minimum) THEN L
            ELSE IF ld.homogeneous
            THEN [j \in DOMAIN L |->
                    IF spanned(j) \in I
                    THEN [L[j] EXCEPT !.minimum = MAX(L[j].minimum, m)] ELSE L[j]]
            ELSE [j \in DOMAIN L |->
                    IF spanned(j) \in I
                    THEN [L[j] EXCEPT !.minimum = @ + min_extras[spanned(j) + 1]]
                    ELSE L[j]]
      L2 == IF ~ (span_natural < r.natural) THEN L1
            ELSE IF ld.homogeneous
            THEN [j \in DOMAIN L1 |->
                    IF spanned(j) \in I
                    THEN [L1[j] EXCEPT !.natural = MAX(L1[j].natural, n)] ELSE L1[j]]
            ELSE [j \in DOMAIN L1 |->
                    IF spanned(j) \in I
                    THEN [L1[j] EXCEPT !.natural = @ + nat_extras[spanned(j) + 1]]
                    ELSE L1[j]]
  IN IF ~ _gtk_widget_get_visible(child.widget) THEN L
     ELSE IF attach.span = 1 THEN L
     ELSE L2

RECURSIVE request_spanning_loop(_, _, _, _, _)
request_spanning_loop(req, orientation, contextual, list, L) ==
  IF list = << >> THEN L
  ELSE request_spanning_loop(req, orientation, contextual, Tail(list),
         request_spanning_child(req, orientation, contextual, Head(list), L))

\* Deals with spanning children.
\* Requires expand fields of lines to be set for
\* non-spanning children.
gtk_grid_request_spanning(req, orientation, contextual) ==
  SetLines(req, orientation,
    request_spanning_loop(req, orientation, contextual, req.grid.children,
                          req.lines[orientation].lines))

\* the loop of gtk_grid_request_compute_expand over the non-spanning children
RECURSIVE compute_expand_non_spanning(_, _, _, _, _, _)
compute_expand_non_spanning(list, orientation, lmin, min, max, L) ==
  IF list = << >> THEN L
  ELSE LET child == Head(list)
           attach == child.attach[orientation]
           i == attach.pos - lmin
           next ==
             IF ~ _gtk_widget_get_visible(child.widget) THEN L
             ELSE IF attach.span # 1 THEN L
             ELSE IF attach.pos >= max \/ attach.pos < min THEN L
             ELSE [L EXCEPT ![i] =
                     [L[i] EXCEPT
                        !.empty = FALSE,
                        !.expand = IF gtk_widget_compute_expand(child.widget, orientation)
                                   THEN TRUE ELSE @]]
       IN compute_expand_non_spanning(Tail(list), orientation, lmin, min, max, next)

\* the loop of gtk_grid_request_compute_expand over the spanning children
RECURSIVE compute_expand_spanning(_, _, _, _, _, _)
compute_expand_spanning(list, orientation, lmin, min, max, L) ==
  IF list = << >> THEN L
  ELSE LET child == Head(list)
           attach == child.attach[orientation]
           I == Range(0, attach.span)
           has_expand == \E i \in I : L[attach.pos - lmin + i].expand
           skipped(i) == attach.pos + i >= max \/ attach.pos + 1 < min
           spanned(j) == j - (attach.pos - lmin)
           L1 == [j \in DOMAIN L |->
                    IF spanned(j) \in I /\ ~ skipped(spanned(j))
                    THEN [L[j] EXCEPT !.empty = FALSE] ELSE L[j]]
           L2 == IF ~ has_expand /\ gtk_widget_compute_expand(child.widget, orientation)
                 THEN [j \in DOMAIN L1 |->
                         IF spanned(j) \in I /\ ~ skipped(spanned(j))
                         THEN [L1[j] EXCEPT !.need_expand = TRUE] ELSE L1[j]]
                 ELSE L1
           next ==
             IF ~ _gtk_widget_get_visible(child.widget) THEN L
             ELSE IF attach.span = 1 THEN L
             ELSE L2
       IN compute_expand_spanning(Tail(list), orientation, lmin, min, max, next)

\* Marks empty and expanding lines and counts them.
\* The result is the request with the marked lines, *nonempty_lines and
\* *expand_lines.
gtk_grid_request_compute_expand(req, orientation, min_arg, max_arg) ==
  LET lines == req.lines[orientation]
      min == MAX(min_arg, lines.min)
      max == MIN(max_arg, lines.max)
      window == Range(min - lines.min, max - lines.min)
      L0 == [i \in DOMAIN lines.lines |->
               IF i \in window
               THEN [lines.lines[i] EXCEPT
                       !.need_expand = FALSE, !.expand = FALSE, !.empty = TRUE]
               ELSE lines.lines[i]]
      L1 == compute_expand_non_spanning(req.grid.children, orientation, lines.min, min, max, L0)
      L2 == compute_expand_spanning(req.grid.children, orientation, lines.min, min, max, L1)
      L3 == [i \in DOMAIN L2 |->
               IF i \in window /\ L2[i].need_expand
               THEN [L2[i] EXCEPT !.expand = TRUE] ELSE L2[i]]
      empty == Cardinality({i \in window : L3[i].empty})
      expand == Cardinality({i \in window : L3[i].expand})
  IN [req |-> SetLines(req, orientation, L3),
      nonempty_lines |-> max - min - empty,
      expand_lines |-> expand]

\* as request_sum_loop, but adding the spacing after every line, empty or not
RECURSIVE request_sum_loop_spacing_every_line(_, _, _, _)
request_sum_loop_spacing_every_line(req, orientation, i, acc) ==
  LET lines == req.lines[orientation]
      line == lines.lines[i]
      at_baseline == /\ orientation = GTK_ORIENTATION_VERTICAL
                     /\ lines.min + i = req.grid.baseline_row
                     /\ line.minimum_above # -1
      spacing == req.grid.linedata[orientation].spacing
  IN IF ~ (i < lines.max - lines.min) THEN acc
     ELSE request_sum_loop_spacing_every_line(req, orientation, i + 1,
            [min |-> acc.min + line.minimum + spacing,
             nat |-> acc.nat + line.natural + spacing,
             minimum_baseline |-> IF at_baseline THEN acc.min + line.minimum_above
                                  ELSE acc.minimum_baseline,
             natural_baseline |-> IF at_baseline THEN acc.nat + line.natural_above
                                  ELSE acc.natural_baseline])

\* the loop of gtk_grid_request_sum: acc holds min, nat and the two baseline
\* out-parameters
RECURSIVE request_sum_loop(_, _, _, _)
request_sum_loop(req, orientation, i, acc) ==
  LET lines == req.lines[orientation]
      line == lines.lines[i]
      at_baseline == /\ orientation = GTK_ORIENTATION_VERTICAL
                     /\ lines.min + i = req.grid.baseline_row
                     /\ line.minimum_above # -1
      spacing == IF ~ line.empty THEN req.grid.linedata[orientation].spacing ELSE 0
  IN IF ~ (i < lines.max - lines.min) THEN acc
     ELSE request_sum_loop(req, orientation, i + 1,
            [min |-> acc.min + line.minimum + spacing,
             nat |-> acc.nat + line.natural + spacing,
             minimum_baseline |-> IF at_baseline THEN acc.min + line.minimum_above
                                  ELSE acc.minimum_baseline,
             natural_baseline |-> IF at_baseline THEN acc.nat + line.natural_above
                                  ELSE acc.natural_baseline])

\* gtk_grid_request_sum without "Remove last spacing, if any was applied"
request_sum_keeping_last_spacing(req, orientation, out) ==
  With(gtk_grid_request_compute_expand(req, orientation, G_MININT, G_MAXINT), LAMBDA ce :
    With(request_sum_loop(ce.req, orientation, 0,
           [min |-> 0, nat |-> 0,
            minimum_baseline |-> out.minimum_baseline,
            natural_baseline |-> out.natural_baseline]), LAMBDA acc :
      [req |-> ce.req,
       minimum |-> acc.min,
       natural |-> acc.nat,
       minimum_baseline |-> acc.minimum_baseline,
       natural_baseline |-> acc.natural_baseline]))

\* Sums the minimum and natural fields of lines and their spacing.
\* `out` holds what the four out-parameters point to before the call; the
\* result is what they point to after it, and the request.
gtk_grid_request_sum(req, orientation, out) ==
  With(gtk_grid_request_compute_expand(req, orientation, G_MININT, G_MAXINT), LAMBDA ce :
    With(request_sum_loop(ce.req, orientation, 0,
           [min |-> 0, nat |-> 0,
            minimum_baseline |-> out.minimum_baseline,
            natural_baseline |-> out.natural_baseline]), LAMBDA acc :
      With(IF ce.nonempty_lines > 0 THEN req.grid.linedata[orientation].spacing ELSE 0,
           LAMBDA last :
        [req |-> ce.req,
         minimum |-> acc.min - last,
         natural |-> acc.nat - last,
         minimum_baseline |-> acc.minimum_baseline,
         natural_baseline |-> acc.natural_baseline])))

\* gtk_grid_request_run without the homogeneous clamp that follows the
\* spanning pass
request_run_without_last_clamp(req, orientation, contextual) ==
  gtk_grid_request_spanning(
    gtk_grid_request_homogeneous(
      gtk_grid_request_non_spanning(
        gtk_grid_request_init(req, orientation),
        orientation, contextual),
      orientation),
    orientation, contextual)

\* Computes minimum and natural fields of lines.
\* When contextual is TRUE, requires allocation of
\* lines in the opposite orientation to be set.
gtk_grid_request_run(req, orientation, contextual) ==
  gtk_grid_request_homogeneous(
    gtk_grid_request_spanning(
      gtk_grid_request_homogeneous(
        gtk_grid_request_non_spanning(
          gtk_grid_request_init(req, orientation),
          orientation, contextual),
        orientation),
      orientation, contextual),
    orientation)

----------------------------------------------------------------------------
(* The space allocator                                                     *)

\* gtk_distribute_natural_allocation (gtksizerequest.c): every requested size
\* keeps at least its minimum; extra_space is then handed out towards the
\* natural sizes, the smallest gap first and an even share ("glue") of what is
\* left each time, so that no size exceeds its natural size.  The result is
\* the sizes and the space that is left over.
RECURSIVE distribute_natural_loop(_, _, _)
distribute_natural_loop(extra_space, sizes, todo) ==
  IF todo = {} \/ ~ (extra_space > 0)
  THEN [sizes |-> sizes, extra_space |-> extra_space]
  ELSE LET gapof(k) == MAX(sizes[k].natural_size - sizes[k].minimum_size, 0)
           k == CHOOSE k \in todo :
                  \A l \in todo : gapof(k) < gapof(l) \/ (gapof(k) = gapof(l) /\ k <= l)
           i == Cardinality(todo) - 1
           glue == CDiv(extra_space + i, i + 1)
           extra == MIN(glue, gapof(k))
       IN distribute_natural_loop(extra_space - extra,
            [sizes EXCEPT ![k].minimum_size = @ + extra], todo \ {k})

gtk_distribute_natural_allocation(extra_space, n_requested_sizes, sizes) ==
  distribute_natural_loop(extra_space, sizes, 1 .. n_requested_sizes)

\* the non-empty lines of the window [from, to) of array indices, in order
RECURSIVE NonEmptyIn(_, _, _)
NonEmptyIn(L, from, to) ==
  IF from >= to THEN << >>
  ELSE (IF L[from].empty THEN << >> ELSE << from >>) \o NonEmptyIn(L, from + 1, to)

\* the position of x in the sequence s of distinct elements (0 if absent)
IndexIn(s, x) ==
  IF \E j \in DOMAIN s : s[j] = x THEN CHOOSE j \in DOMAIN s : s[j] = x ELSE 0

\* gtk_grid_distribute_non_homogeneous without "rest": what the division of
\* the extra space by the number of expand lines leaves is given to no line
distribute_non_homogeneous_without_rest(lines, nonempty, expand, size, min, max) ==
  LET L == lines.lines
      ne == NonEmptyIn(L, min - lines.min, max - lines.min)
      sizes == [j \in DOMAIN ne |->
                  [minimum_size |-> L[ne[j]].minimum, natural_size |-> L[ne[j]].natural]]
      left == size - SumOver([j \in DOMAIN ne |-> L[ne[j]].minimum], DOMAIN ne)
      d == gtk_distribute_natural_allocation(MAX(0, left), nonempty, sizes)
      extra == IF expand > 0 THEN CDiv(d.extra_space, expand) ELSE 0
  IN IF nonempty = 0 THEN L
     ELSE [i \in DOMAIN L |->
             LET j == IndexIn(ne, i)
             IN IF j = 0 THEN L[i]
                ELSE [L[i] EXCEPT !.allocation =
                        d.sizes[j].minimum_size + (IF L[i].expand THEN extra ELSE 0)]]

\* `lines` is a GtkGridLines; the result is its lines array with the
\* allocation of the non-empty lines of [min, max) set.
gtk_grid_distribute_non_homogeneous(lines, nonempty, expand, size, min, max) ==
  LET L == lines.lines
      ne == NonEmptyIn(L, min - lines.min, max - lines.min)
      sizes == [j \in DOMAIN ne |->
                  [minimum_size |-> L[ne[j]].minimum, natural_size |-> L[ne[j]].natural]]
      left == size - SumOver([j \in DOMAIN ne |-> L[ne[j]].minimum], DOMAIN ne)
      d == gtk_distribute_natural_allocation(MAX(0, left), nonempty, sizes)
      extra == IF expand > 0 THEN CDiv(d.extra_space, expand) ELSE 0
      rest == IF expand > 0 THEN CMod(d.extra_space, expand) ELSE 0
      \* the number of expand lines before ne[j]: each took one unit of rest
      before(j) == Cardinality({k \in 1 .. j - 1 : L[ne[k]].expand})
  IN IF nonempty = 0 THEN L
     ELSE [i \in DOMAIN L |->
             LET j == IndexIn(ne, i)
             IN IF j = 0 THEN L[i]
                ELSE [L[i] EXCEPT !.allocation =
                        d.sizes[j].minimum_size
                          + (IF L[i].expand
                             THEN extra + (IF rest - before(j) > 0 THEN 1 ELSE 0)
                             ELSE 0)]]

\* the last loop of gtk_grid_request_allocate, for one line
allocated_baseline_line(line, baseline_pos) ==
  IF line.empty THEN line
  ELSE IF line.minimum_above # -1
  THEN CASE baseline_pos = GTK_BASELINE_POSITION_TOP ->
              [line EXCEPT !.allocated_baseline = line.minimum_above]
         [] baseline_pos = GTK_BASELINE_POSITION_CENTER ->
              [line EXCEPT !.allocated_baseline =
                 line.minimum_above
                   + CDiv(line.allocation - (line.minimum_above + line.minimum_below), 2)]
         [] baseline_pos = GTK_BASELINE_POSITION_BOTTOM ->
              [line EXCEPT !.allocated_baseline = line.allocation - line.minimum_below]
  ELSE [line EXCEPT !.allocated_baseline = -1]

\* whether gtk_grid_request_allocate splits the lines at the baseline row
baseline_split(req, orientation) ==
  LET lines == req.lines[orientation]
      baseline == req.grid.allocated_baseline
      row == req.grid.baseline_row
  IN /\ orientation = GTK_ORIENTATION_VERTICAL
     /\ baseline # -1
     /\ row >= lines.min
     /\ row < lines.max
     /\ lines.lines[row - lines.min].minimum_above # -1

\* the homogeneous branch that would give the remainder to the last
\* non-empty lines
allocate_homogeneous_rest_last(L, size1, size2, nonempty1, nonempty2) ==
  LET extra1 == IF nonempty1 > 0 THEN CDiv(size1, nonempty1) ELSE 0
      rest1 == IF nonempty1 > 0 THEN CMod(size1, nonempty1) ELSE 0
      second == nonempty2 > 0 /\ (CDiv(size2, nonempty2) < extra1 \/ nonempty1 = 0)
      extra == IF second THEN CDiv(size2, nonempty2) ELSE extra1
      rest == IF second THEN CMod(size2, nonempty2) ELSE rest1
  IN With(NonEmptyIn(L, 0, Cardinality(DOMAIN L)), LAMBDA ne :
       [i \in DOMAIN L |->
          With(IndexIn(ne, i), LAMBDA j :
            IF j = 0 THEN L[i]
            ELSE [L[i] EXCEPT !.allocation =
                    extra + (IF j > Len(ne) - rest THEN 1 ELSE 0)])])

\* the homogeneous branch of gtk_grid_request_allocate: every non-empty line
\* of the array L gets the same share
allocate_homogeneous(L, size1, size2, nonempty1, nonempty2) ==
  LET extra1 == IF nonempty1 > 0 THEN CDiv(size1, nonempty1) ELSE 0
      rest1 == IF nonempty1 > 0 THEN CMod(size1, nonempty1) ELSE 0
      second == nonempty2 > 0 /\ (CDiv(size2, nonempty2) < extra1 \/ nonempty1 = 0)
      extra == IF second THEN CDiv(size2, nonempty2) ELSE extra1
      rest == IF second THEN CMod(size2, nonempty2) ELSE rest1
  IN With(NonEmptyIn(L, 0, Cardinality(DOMAIN L)), LAMBDA ne :
       [i \in DOMAIN L |->
          With(IndexIn(ne, i), LAMBDA j :
            IF j = 0 THEN L[i]
            ELSE [L[i] EXCEPT !.allocation =
                    extra + (IF rest - (j - 1) > 0 THEN 1 ELSE 0)])])

\* the last loop of gtk_grid_request_allocate over the lines array LA
allocated_baselines(req, orientation, LA) ==
  [i \in DOMAIN LA |->
     allocated_baseline_line(LA[i],
       gtk_grid_get_row_baseline_position(req.grid, i + req.lines[orientation].min))]

\* gtk_grid_request_allocate that would distribute the sum of the two budgets
\* among the lines before the split
request_allocate_sized_from_sum(req, orientation, split, size1, size2, nonempty1, expand1, nonempty2, expand2) ==
  LET ld == req.grid.linedata[orientation]
      lines == req.lines[orientation]
  IN IF nonempty1 = 0 /\ nonempty2 = 0 THEN req
     ELSE SetLines(req, orientation,
            allocated_baselines(req, orientation,
              IF ld.homogeneous
              THEN allocate_homogeneous(lines.lines, size1, size2, nonempty1, nonempty2)
              ELSE gtk_grid_distribute_non_homogeneous(
                     [lines EXCEPT !.lines =
                        gtk_grid_distribute_non_homogeneous(
                          lines, nonempty1, expand1, size1 + size2, lines.min, split)],
                     nonempty2, expand2, size2, split, lines.max)))

\* gtk_grid_request_allocate after its calls of
\* gtk_grid_request_compute_expand: req holds the marks they left, the other
\* arguments are the locals of the same names
request_allocate_sized(req, orientation, split, size1, size2, nonempty1, expand1, nonempty2, expand2) ==
  LET ld == req.grid.linedata[orientation]
      lines == req.lines[orientation]
  IN IF nonempty1 = 0 /\ nonempty2 = 0 THEN req
     ELSE SetLines(req, orientation,
            allocated_baselines(req, orientation,
              IF ld.homogeneous
              THEN allocate_homogeneous(lines.lines, size1, size2, nonempty1, nonempty2)
              ELSE gtk_grid_distribute_non_homogeneous(
                     [lines EXCEPT !.lines =
                        gtk_grid_distribute_non_homogeneous(
                          lines, nonempty1, expand1, size1, lines.min, split)],
                     nonempty2, expand2, size2, split, lines.max)))

\* Requires that the minimum and natural fields of lines
\* have been set, computes the allocation field of lines
\* by distributing total_size among lines.
gtk_grid_request_allocate(req, orientation, total_size) ==
  LET ld == req.grid.linedata[orientation]
      lines == req.lines[orientation]
      split == req.grid.baseline_row
      split_pos == req.grid.allocated_baseline
                     - lines.lines[req.grid.baseline_row - lines.min].minimum_above
  IN IF baseline_split(req, orientation)
     THEN With(gtk_grid_request_compute_expand(req, orientation, lines.min, split),
               LAMBDA ce1 :
            With(gtk_grid_request_compute_expand(ce1.req, orientation, split, lines.max),
                 LAMBDA ce2 :
              IF ce2.nonempty_lines > 0
              THEN request_allocate_sized(ce2.req, orientation, split,
                     split_pos - ce1.nonempty_lines * ld.spacing,
                     (total_size - split_pos) - (ce2.nonempty_lines - 1) * ld.spacing,
                     ce1.nonempty_lines, ce1.expand_lines,
                     ce2.nonempty_lines, ce2.expand_lines)
              ELSE request_allocate_sized(ce2.req, orientation, split,
                     total_size - (ce1.nonempty_lines - 1) * ld.spacing, 0,
                     ce1.nonempty_lines, ce1.expand_lines,
                     ce2.nonempty_lines, ce2.expand_lines)))
     ELSE With(gtk_grid_request_compute_expand(req, orientation, lines.min, lines.max),
               LAMBDA ce1 :
            request_allocate_sized(ce1.req, orientation, lines.max,
              total_size - (ce1.nonempty_lines - 1) * ld.spacing, 0,
              ce1.nonempty_lines, ce1.expand_lines, 0, 0))

\* the loop of gtk_grid_request_position from line i on
RECURSIVE request_position_loop(_, _, _, _, _)
request_position_loop(req, orientation, i, position, L) ==
  LET lines == req.lines[orientation]
      ld == req.grid.linedata[orientation]
      line == L[i]
      at_baseline == /\ orientation = GTK_ORIENTATION_VERTICAL
                     /\ i + lines.min = req.grid.baseline_row
                     /\ req.grid.allocated_baseline # -1
                     /\ line.minimum_above # -1
      pos1 == IF at_baseline THEN req.grid.allocated_baseline - line.minimum_above
              ELSE position
      \* Back-patch previous rows
      L1 == IF at_baseline
            THEN [j \in DOMAIN L |->
                    IF j < i /\ ~ L[j].empty
                    THEN [L[j] EXCEPT !.position = @ + (pos1 - position)] ELSE L[j]]
            ELSE L
      L2 == IF ~ line.empty
            THEN [L1 EXCEPT ![i] =
                    [L1[i] EXCEPT
                       !.position = pos1,
                       !.allocated_baseline =
                          IF at_baseline THEN req.grid.allocated_baseline - pos1 ELSE @]]
            ELSE L1
      pos2 == IF ~ line.empty THEN pos1 + line.allocation + ld.spacing ELSE pos1
  IN IF ~ (i < lines.max - lines.min) THEN L
     ELSE request_position_loop(req, orientation, i + 1, pos2, L2)

\* Computes the position fields from allocation and spacing.
gtk_grid_request_position(req, orientation) ==
  SetLines(req, orientation,
    request_position_loop(req, orientation, 0, 0, req.lines[orientation].lines))

----------------------------------------------------------------------------
(* The entry points of the layout passes                                   *)

GTK_TEXT_DIR_LTR == "LTR"
GTK_TEXT_DIR_RTL == "RTL"

\* what the out-parameters of a size query hold when the grid has no child
NoSize == [minimum |-> 0, natural |-> 0, minimum_baseline |-> -1, natural_baseline |-> -1]

\* gtk_grid_get_size without "*minimum_baseline = -1" and
\* "*natural_baseline = -1": the baselines keep what the caller's variables
\* held when no row sets them
get_size_keeping_baselines(grid, orientation, out) ==
  LET out0 == [NoSize EXCEPT !.minimum_baseline = out.minimum_baseline,
                             !.natural_baseline = out.natural_baseline]
  IN IF grid.children = << >>
     THEN out0 @@ [req |-> NewRequest(grid, {})]
     ELSE gtk_grid_request_sum(
            gtk_grid_request_run(NewRequest(grid, {orientation}), orientation, FALSE),
            orientation, out0)

\* `out` holds what the caller's four out-parameters point to before the
\* call.  The result is what they point to after it, and the request.
gtk_grid_get_size(grid, orientation, out) ==
  IF grid.children = << >>
  THEN NoSize @@ [req |-> NewRequest(grid, {})]
  ELSE gtk_grid_request_sum(
         gtk_grid_request_run(NewRequest(grid, {orientation}), orientation, FALSE),
         orientation, NoSize)

\* gtk_grid_get_size_for_size that would return from a grid without children
\* before it writes the out-parameters
get_size_for_size_returning_first(grid, orientation, size, out) ==
  IF grid.children = << >>
  THEN out @@ [req |-> NewRequest(grid, {})]
  ELSE With(gtk_grid_request_sum(
              gtk_grid_request_run(NewRequest(grid, Orientations), 1 - orientation, FALSE),
              1 - orientation, NoSize), LAMBDA sum1 :
         gtk_grid_request_sum(
           gtk_grid_request_run(
             gtk_grid_request_allocate(sum1.req, 1 - orientation,
                                       MAX(size, sum1.minimum)),
             orientation, TRUE),
           orientation, NoSize))

\* sum1 holds min_size and the request after the first gtk_grid_request_sum
gtk_grid_get_size_for_size(grid, orientation, size, out) ==
  IF grid.children = << >>
  THEN NoSize @@ [req |-> NewRequest(grid, {})]
  ELSE With(gtk_grid_request_sum(
              gtk_grid_request_run(NewRequest(grid, Orientations), 1 - orientation, FALSE),
              1 - orientation, NoSize), LAMBDA sum1 :
         gtk_grid_request_sum(
           gtk_grid_request_run(
             gtk_grid_request_allocate(sum1.req, 1 - orientation,
                                       MAX(size, sum1.minimum)),
             orientation, TRUE),
           orientation, NoSize))

\* as allocate_child, but with the baseline of the first row for a child of
\* any span
allocate_child_baseline_for_any_span(req, orientation, child) ==
  LET ld == req.grid.linedata[orientation]
      lines == req.lines[orientation]
      attach == child.attach[orientation]
      I == Range(0, attach.span)
  IN [position |-> lines.lines[attach.pos - lines.min].position,
      baseline |-> lines.lines[attach.pos - lines.min].allocated_baseline,
      size |-> (attach.span - 1) * ld.spacing
                 + SumOver([i \in I |-> lines.lines[attach.pos - lines.min + i].allocation], I)]

\* the position, size and baseline of a child in one orientation
allocate_child(req, orientation, child) ==
  LET ld == req.grid.linedata[orientation]
      lines == req.lines[orientation]
      attach == child.attach[orientation]
      I == Range(0, attach.span)
  IN [position |-> lines.lines[attach.pos - lines.min].position,
      baseline |-> IF attach.span = 1
                   THEN lines.lines[attach.pos - lines.min].allocated_baseline
                   ELSE -1,
      size |-> (attach.span - 1) * ld.spacing
                 + SumOver([i \in I |-> lines.lines[attach.pos - lines.min + i].allocation], I)]

\* as request_allocate_children_loop, but mirroring with the width before its
\* floor of 1
RECURSIVE children_loop_mirroring_unfloored(_, _)
children_loop_mirroring_unfloored(req, list) ==
  IF list = << >> THEN << >>
  ELSE LET child == Head(list)
           a == req.grid.allocation
           h == allocate_child(req, GTK_ORIENTATION_HORIZONTAL, child)
           v == allocate_child(req, GTK_ORIENTATION_VERTICAL, child)
           x == a.x + h.position
           rtl_x == a.x + a.width - (x - a.x) - h.size
       IN (IF ~ _gtk_widget_get_visible(child.widget) THEN << >>
           ELSE << [widget |-> child.widget.name,
                    x |-> IF req.grid.direction = GTK_TEXT_DIR_RTL THEN rtl_x ELSE x,
                    y |-> a.y + v.position,
                    width |-> MAX(1, h.size), height |-> MAX(1, v.size),
                    baseline |-> v.baseline] >>)
          \o children_loop_mirroring_unfloored(req, Tail(list))

\* the calls of gtk_widget_size_allocate_with_baseline, in the order made
RECURSIVE request_allocate_children_loop(_, _)
request_allocate_children_loop(req, list) ==
  IF list = << >> THEN << >>
  ELSE LET child == Head(list)
           a == req.grid.allocation
           h == allocate_child(req, GTK_ORIENTATION_HORIZONTAL, child)
           v == allocate_child(req, GTK_ORIENTATION_VERTICAL, child)
           width == MAX(1, h.size)
           height == MAX(1, v.size)
           x == a.x + h.position
           y == a.y + v.position
           rtl_x == a.x + a.width - (x - a.x) - width
       IN (IF ~ _gtk_widget_get_visible(child.widget) THEN << >>
           ELSE << [widget |-> child.widget.name,
                    x |-> IF req.grid.direction = GTK_TEXT_DIR_RTL THEN rtl_x ELSE x,
                    y |-> y, width |-> width, height |-> height,
                    baseline |-> v.baseline] >>)
          \o request_allocate_children_loop(req, Tail(list))

gtk_grid_request_allocate_children(req) ==
  request_allocate_children_loop(req, req.grid.children)

GET_SIZE(a, orientation) ==
  IF orientation = GTK_ORIENTATION_HORIZONTAL THEN a.width ELSE a.height

\* grid.allocation and grid.allocated_baseline are those of this allocation;
\* request_mode is the answer of gtk_widget_get_request_mode.
gtk_grid_size_allocate(grid, request_mode) ==
  LET orientation == IF request_mode = GTK_SIZE_REQUEST_WIDTH_FOR_HEIGHT
                     THEN GTK_ORIENTATION_HORIZONTAL ELSE GTK_ORIENTATION_VERTICAL
  IN IF grid.children = << >>
     THEN [req |-> NewRequest(grid, {}), children |-> << >>]
     ELSE With(gtk_grid_request_position(
                 gtk_grid_request_position(
                   gtk_grid_request_allocate(
                     gtk_grid_request_run(
                       gtk_grid_request_allocate(
                         gtk_grid_request_run(NewRequest(grid, Orientations),
                                              1 - orientation, FALSE),
                         1 - orientation, GET_SIZE(grid.allocation, 1 - orientation)),
                       orientation, TRUE),
                     orientation, GET_SIZE(grid.allocation, orientation)),
                   0),
                 1), LAMBDA positioned :
            [req |-> positioned,
             children |-> gtk_grid_request_allocate_children(positioned)])

----------------------------------------------------------------------------
(* The state machine: the grid, its mutators and its layout passes         *)

\* the GtkGrid as the layout passes read it
Grid ==
  [children |-> children, row_properties |-> row_properties,
   baseline_row |-> baseline_row, linedata |-> linedata,
   allocated_baseline |-> allocated_baseline, allocation |-> allocation,
   direction |-> direction]

\* the request of the last pass, as the GtkGridRequest the pass worked on
Request == [grid |-> Grid, lines |-> request]

NoRequest == NewRequest([children |-> << >>], {}).lines
NoCall == [name |-> "none"]

\* The lines before and after each turn of the loop of
\* gtk_grid_request_spanning: turn i is the turn of the i-th child of list.
RECURSIVE spanning_steps(_, _, _, _, _)
spanning_steps(req, orientation, contextual, list, L) ==
  IF list = << >> THEN << >>
  ELSE With(request_spanning_child(req, orientation, contextual, Head(list), L),
            LAMBDA after :
         << [before |-> [i \in DOMAIN L |-> L[i]],
             after |-> [i \in DOMAIN after |-> after[i]]] >>
           \o spanning_steps(req, orientation, contextual, Tail(list), after))

\* The lines of `orientation` after each step of gtk_grid_request_run, for
\* the request req the run starts from, and the turns of the spanning pass.
run_passes(req, orientation, contextual) ==
  LET Lines(r) == [i \in DOMAIN r.lines[orientation].lines |-> r.lines[orientation].lines[i]]
  IN With(gtk_grid_request_init(req, orientation), LAMBDA r1 :
       With(gtk_grid_request_non_spanning(r1, orientation, contextual), LAMBDA r2 :
         With(gtk_grid_request_homogeneous(r2, orientation), LAMBDA r3 :
           [init |-> Lines(r1), non_spanning |-> Lines(r2),
            homogeneous |-> Lines(r3),
            spanning |-> Lines(gtk_grid_request_spanning(r3, orientation, contextual)),
            steps |-> spanning_steps(r3, orientation, contextual, req.grid.children,
                                     r3.lines[orientation].lines)])))

NoPasses ==
  [init |-> << >>, non_spanning |-> << >>, homogeneous |-> << >>, spanning |-> << >>,
   steps |-> << >>]

\* a child widget: what it answers to the grid's calls
Widget(name, visible, hexpand, vexpand, min_w, nat_w, min_h, nat_h, min_b, nat_b, wrap) ==
  [name |-> name, visible |-> visible, expand |-> Pair(hexpand, vexpand),
   minimum |-> Pair(min_w, min_h), natural |-> Pair(nat_w, nat_h),
   minimum_baseline |-> min_b, natural_baseline |-> nat_b, wrap |-> wrap]

\* _gtk_widget_get_parent (child) == NULL, for a widget that has no parent
\* other than this grid
HasParent(name) == \E i \in DOMAIN children : children[i].widget.name = name

\* gtk_grid_init, and gtk_widget_show: the grid is one that is shown
Init ==
  /\ children = << >>
  /\ row_properties = << >>
  /\ baseline_row = 0
  /\ linedata = [o \in Orientations |-> [spacing |-> 0, homogeneous |-> FALSE]]
  /\ allocated_baseline = -1
  /\ allocation = [x |-> 0, y |-> 0, width |-> 1, height |-> 1]
  /\ direction = GTK_TEXT_DIR_LTR
  /\ grid_visible = TRUE
  /\ request = NoRequest
  /\ passes = NoPasses
  /\ ret = NoSize
  /\ emitted = << >>
  /\ call = NoCall

\* a mutator returns to the caller: the frames of earlier passes are gone
Forget ==
  /\ request' = NoRequest
  /\ passes' = NoPasses
  /\ ret' = NoSize
  /\ emitted' = << >>
  /\ call' = NoCall

grid_attach(list, widget, left, top, width, height) ==
  << [widget |-> widget,
      attach |-> Pair([pos |-> left, span |-> width], [pos |-> top, span |-> height])] >>
    \o list

gtk_grid_attach(widget, left, top, width, height) ==
  /\ children' = IF ~ HasParent(widget.name) /\ width > 0 /\ height > 0
                 THEN grid_attach(children, widget, left, top, width, height)
                 ELSE children
  /\ Forget
  /\ UNCHANGED << row_properties, baseline_row, linedata,
                  allocated_baseline, allocation, direction, grid_visible >>

\* gtk_grid_set_row_spacing (orientation 1) and gtk_grid_set_column_spacing
\* (orientation 0)
gtk_grid_set_spacing(orientation, spacing) ==
  /\ linedata' = IF linedata[orientation].spacing # spacing
                 THEN [linedata EXCEPT ![orientation].spacing = spacing]
                 ELSE linedata
  /\ Forget
  /\ UNCHANGED << children, row_properties, baseline_row,
                  allocated_baseline, allocation, direction, grid_visible >>

\* gtk_grid_set_row_homogeneous (orientation 1) and
\* gtk_grid_set_column_homogeneous (orientation 0)
gtk_grid_set_homogeneous(orientation, homogeneous) ==
  /\ linedata' = IF linedata[orientation].homogeneous # homogeneous
                 THEN [linedata EXCEPT ![orientation].homogeneous = homogeneous]
                 ELSE linedata
  /\ Forget
  /\ UNCHANGED << children, row_properties, baseline_row,
                  allocated_baseline, allocation, direction, grid_visible >>

gtk_grid_set_baseline_row(row) ==
  /\ baseline_row' = row
  /\ Forget
  /\ UNCHANGED << children, row_properties, linedata,
                  allocated_baseline, allocation, direction, grid_visible >>

get_row_properties_or_create(props, row) ==
  IF find_row_properties(props, row) # << >> THEN props
  ELSE << [gtk_grid_row_properties_default EXCEPT !.row = row] >> \o props

gtk_grid_set_row_baseline_position(row, pos) ==
  /\ row_properties' =
       LET props == get_row_properties_or_create(row_properties, row)
       IN [i \in DOMAIN props |->
             IF props[i].row = row /\ i = (CHOOSE j \in DOMAIN props : props[j].row = row
                                              /\ \A k \in 1 .. j - 1 : props[k].row # row)
             THEN [props[i] EXCEPT !.baseline_position = pos] ELSE props[i]]
  /\ Forget
  /\ UNCHANGED << children, baseline_row, linedata,
                  allocated_baseline, allocation, direction, grid_visible >>

\* a + b as the gint the code computes: out of the range of gint the sum
\* wraps around, which is what the builds of the library make of the signed
\* overflow
gint_add(a, b) ==
  IF a > 0 /\ b > G_MAXINT - a THEN (a + G_MININT) + (b + G_MININT)
  ELSE IF a < 0 /\ b < G_MININT - a THEN (a - G_MININT) + (b - G_MININT)
  ELSE a + b

\* gtk_grid_remove that would leave the child in the list
remove_nothing(list, widget) == list

\* gtk_grid_remove: the child of `widget` leaves the list, the others keep
\* their order
gtk_grid_remove(list, widget) ==
  SelectSeq(list, LAMBDA child : child.widget.name # widget.name)

\* gtk_grid_set_child_property that would set the position and keep the span
set_child_property_keeping_span(list, widget, orientation, pos, span) ==
  [i \in DOMAIN list |->
     IF list[i].widget.name = widget.name
     THEN [list[i] EXCEPT !.attach[orientation].pos = pos]
     ELSE list[i]]

\* gtk_grid_set_child_property for the attachment of `orientation`:
\* "left-attach" and "width" (orientation 0), "top-attach" and "height"
\* (orientation 1)
gtk_grid_set_child_property(list, widget, orientation, pos, span) ==
  [i \in DOMAIN list |->
     IF list[i].widget.name = widget.name
     THEN [list[i] EXCEPT !.attach[orientation] = [pos |-> pos, span |-> span]]
     ELSE list[i]]

\* the loop of gtk_grid_insert_row that would move the children and grow none
insert_loop_without_growth(list, orientation, position) ==
  [i \in DOMAIN list |->
     IF list[i].attach[orientation].pos >= position
     THEN [list[i] EXCEPT !.attach[orientation].pos = list[i].attach[orientation].pos + 1]
     ELSE list[i]]

\* The loop over the children of gtk_grid_insert_row (orientation 1) and
\* gtk_grid_insert_column (orientation 0).
insert_loop(list, orientation, position) ==
  [i \in DOMAIN list |->
     LET top == list[i].attach[orientation].pos
         height == list[i].attach[orientation].span
     IN IF top >= position
        THEN [list[i] EXCEPT !.attach[orientation].pos = gint_add(top, 1)]
        ELSE IF gint_add(top, height) > position
        THEN [list[i] EXCEPT !.attach[orientation].span = gint_add(height, 1)]
        ELSE list[i]]

\* the loop over priv->row_properties of gtk_grid_insert_row
insert_row_properties(props, position) ==
  [i \in DOMAIN props |->
     IF props[i].row >= position
     THEN [props[i] EXCEPT !.row = gint_add(props[i].row, 1)]
     ELSE props[i]]

\* The loop over the children of gtk_grid_remove_row (orientation 1) and
\* gtk_grid_remove_column (orientation 0): `list` is the rest of the walk,
\* `all` the children of the grid as the turns before left them.
RECURSIVE remove_loop(_, _, _, _)
remove_loop(list, all, orientation, position) ==
  IF list = << >> THEN all
  ELSE LET child == Head(list)
           top0 == child.attach[orientation].pos
           height0 == child.attach[orientation].span
           height == IF top0 <= position /\ gint_add(top0, height0) > position
                     THEN gint_add(height0, -1) ELSE height0
           top == IF top0 > position THEN top0 - 1 ELSE top0
       IN remove_loop(Tail(list),
                      IF height <= 0 THEN gtk_grid_remove(all, child.widget)
                      ELSE gtk_grid_set_child_property(all, child.widget, orientation,
                                                       top, height),
                      orientation, position)

\* The calls of gtk_widget_queue_resize that gtk_grid_remove_row (orientation
\* 1) and gtk_grid_remove_column (orientation 0) make through
\* gtk_container_remove and gtk_container_child_set, as the set of the
\* widgets they are made on: gtk_grid_remove asks it of the grid, for a child
\* that was visible, and gtk_grid_set_child_property of the child, if it is
\* visible, both only in a grid that is visible.
RECURSIVE remove_loop_queue_resize(_, _, _, _)
remove_loop_queue_resize(list, orientation, position, visible) ==
  IF list = << >> THEN {}
  ELSE LET child == Head(list)
           top0 == child.attach[orientation].pos
           height0 == child.attach[orientation].span
           height == IF top0 <= position /\ gint_add(top0, height0) > position
                     THEN gint_add(height0, -1) ELSE height0
       IN (IF ~ (_gtk_widget_get_visible(child.widget) /\ visible) THEN {}
           ELSE IF height <= 0 THEN {"grid"}
           ELSE {child.widget.name})
          \cup remove_loop_queue_resize(Tail(list), orientation, position, visible)

\* a mutator returns to the caller, who keeps what it called, with which
\* widget ("" where the call has none) and arguments, the children the grid
\* had before the call, how many rows and columns it has inserted and
\* removed so far, and the widgets the call has made gtk_widget_queue_resize
\* on ("grid": the grid itself)
Returned(name, widget, arguments, queue_resize) ==
  /\ request' = NoRequest
  /\ passes' = NoPasses
  /\ ret' = NoSize
  /\ emitted' = << >>
  /\ call' = [name |-> name, widget |-> widget, arguments |-> arguments,
              children |-> [i \in DOMAIN children |-> children[i]],
              edits |-> LET inserts_and_removes == {"gtk_grid_insert_row",
                                                    "gtk_grid_remove_row",
                                                    "gtk_grid_insert_column",
                                                    "gtk_grid_remove_column"}
                            edits == IF call.name \in inserts_and_removes
                                     THEN call.edits ELSE 0
                        IN IF name \in inserts_and_removes THEN edits + 1 ELSE edits,
              queue_resize |-> queue_resize]

gtk_grid_insert_row(position) ==
  /\ children' = insert_loop(children, GTK_ORIENTATION_VERTICAL, position)
  /\ row_properties' = insert_row_properties(row_properties, position)
  /\ Returned("gtk_grid_insert_row", "", << position >>, {})
  /\ UNCHANGED << baseline_row, linedata, allocated_baseline, allocation, direction, grid_visible >>

gtk_grid_remove_row(position) ==
  /\ children' = remove_loop(children, children, GTK_ORIENTATION_VERTICAL, position)
  /\ Returned("gtk_grid_remove_row", "", << position >>,
              remove_loop_queue_resize(children, GTK_ORIENTATION_VERTICAL, position,
                                       grid_visible))
  /\ UNCHANGED << row_properties, baseline_row, linedata,
                  allocated_baseline, allocation, direction, grid_visible >>

gtk_grid_insert_column(position) ==
  /\ children' = insert_loop(children, GTK_ORIENTATION_HORIZONTAL, position)
  /\ Returned("gtk_grid_insert_column", "", << position >>, {})
  /\ UNCHANGED << row_properties, baseline_row, linedata,
                  allocated_baseline, allocation, direction, grid_visible >>

gtk_grid_remove_column(position) ==
  /\ children' = remove_loop(children, children, GTK_ORIENTATION_HORIZONTAL, position)
  /\ Returned("gtk_grid_remove_column", "", << position >>,
              remove_loop_queue_resize(children, GTK_ORIENTATION_HORIZONTAL, position,
                                       grid_visible))
  /\ UNCHANGED << row_properties, baseline_row, linedata,
                  allocated_baseline, allocation, direction, grid_visible >>

\* gtk_grid_attach without its g_return_if_fail lines
attach_unchecked(widget, left, top, width, height) ==
  /\ children' = grid_attach(children, widget, left, top, width, height)
  /\ Returned("gtk_grid_attach", widget.name, << left, top, width, height >>, {})
  /\ UNCHANGED << row_properties, baseline_row, linedata,
                  allocated_baseline, allocation, direction, grid_visible >>

\* gtk_grid_attach called by an application that keeps a record of the call:
\* the g_return_if_fail lines return before anything is done
gtk_grid_attach_recorded(widget, left, top, width, height) ==
  /\ children' = IF ~ HasParent(widget.name) /\ width > 0 /\ height > 0
                 THEN grid_attach(children, widget, left, top, width, height)
                 ELSE children
  /\ Returned("gtk_grid_attach", widget.name, << left, top, width, height >>, {})
  /\ UNCHANGED << row_properties, baseline_row, linedata,
                  allocated_baseline, allocation, direction, grid_visible >>

\* The setters called by an application that keeps a record of the call:
\* each of them asks for a resize of the grid when it changes the value, and
\* only of a grid that is visible.
gtk_grid_set_spacing_recorded(orientation, spacing) ==
  /\ linedata' = IF linedata[orientation].spacing # spacing
                 THEN [linedata EXCEPT ![orientation].spacing = spacing]
                 ELSE linedata
  /\ Returned(IF orientation = GTK_ORIENTATION_VERTICAL
              THEN "gtk_grid_set_row_spacing" ELSE "gtk_grid_set_column_spacing",
              "", << spacing >>,
              IF linedata[orientation].spacing # spacing /\ grid_visible
              THEN {"grid"} ELSE {})
  /\ UNCHANGED << children, row_properties, baseline_row,
                  allocated_baseline, allocation, direction, grid_visible >>

gtk_grid_set_homogeneous_recorded(orientation, homogeneous) ==
  /\ linedata' = IF linedata[orientation].homogeneous # homogeneous
                 THEN [linedata EXCEPT ![orientation].homogeneous = homogeneous]
                 ELSE linedata
  /\ Returned(IF orientation = GTK_ORIENTATION_VERTICAL
              THEN "gtk_grid_set_row_homogeneous" ELSE "gtk_grid_set_column_homogeneous",
              "", << homogeneous >>,
              IF linedata[orientation].homogeneous # homogeneous /\ grid_visible
              THEN {"grid"} ELSE {})
  /\ UNCHANGED << children, row_properties, baseline_row,
                  allocated_baseline, allocation, direction, grid_visible >>

gtk_grid_set_baseline_row_recorded(row) ==
  /\ baseline_row' = row
  /\ Returned("gtk_grid_set_baseline_row", "", << row >>,
              IF baseline_row # row /\ grid_visible THEN {"grid"} ELSE {})
  /\ UNCHANGED << children, row_properties, linedata,
                  allocated_baseline, allocation, direction, grid_visible >>

gtk_grid_set_row_baseline_position_recorded(row, pos) ==
  /\ row_properties' =
       LET props == get_row_properties_or_create(row_properties, row)
       IN [i \in DOMAIN props |->
             IF props[i].row = row /\ i = (CHOOSE j \in DOMAIN props : props[j].row = row
                                              /\ \A k \in 1 .. j - 1 : props[k].row # row)
             THEN [props[i] EXCEPT !.baseline_position = pos] ELSE props[i]]
  /\ Returned("gtk_grid_set_row_baseline_position", "", << row, pos >>,
              IF /\ find_row_properties(
                      get_row_properties_or_create(row_properties, row),
                      row)[1].baseline_position # pos
                 /\ grid_visible
              THEN {"grid"} ELSE {})
  /\ UNCHANGED << children, baseline_row, linedata,
                  allocated_baseline, allocation, direction, grid_visible >>

\* gtk_widget_show and gtk_widget_hide on the grid
gtk_widget_set_visible(visible) ==
  /\ grid_visible' = visible
  /\ Forget
  /\ UNCHANGED << children, row_properties, baseline_row, linedata,
                  allocated_baseline, allocation, direction >>

\* A size query whose caller's out-parameters hold `out`:
\* gtk_grid_get_preferred_width, gtk_grid_get_preferred_height and
\* gtk_grid_get_preferred_height_and_baseline_for_width in the branch that
\* calls gtk_grid_get_size (the request mode is not the one that makes the
\* query contextual, or the width is -1).  call.again tells that the
\* operation before it was the same query.
GetSize(orientation, out) ==
  \E r \in {gtk_grid_get_size(Grid, orientation, out)} :
     /\ ret' = [minimum |-> r.minimum, natural |-> r.natural,
                minimum_baseline |-> r.minimum_baseline,
                natural_baseline |-> r.natural_baseline]
     /\ request' = r.req.lines
     /\ passes' = IF children = << >> THEN NoPasses
                  ELSE run_passes(NewRequest(Grid, {orientation}), orientation, FALSE)
     /\ emitted' = << >>
     /\ call' = [name |-> "gtk_grid_get_size", orientation |-> orientation,
                 again |-> /\ call.name = "gtk_grid_get_size"
                           /\ call.orientation = orientation]
     /\ UNCHANGED << children, row_properties, baseline_row, linedata,
                     allocated_baseline, allocation, direction, grid_visible >>

\* A contextual size query: gtk_grid_get_preferred_width_for_height,
\* gtk_grid_get_preferred_height_for_width and
\* gtk_grid_get_preferred_height_and_baseline_for_width in the branch that
\* calls gtk_grid_get_size_for_size.
GetSizeForSize(orientation, size, out) ==
  \E r \in {gtk_grid_get_size_for_size(Grid, orientation, size, out)} :
     /\ ret' = [minimum |-> r.minimum, natural |-> r.natural,
                minimum_baseline |-> r.minimum_baseline,
                natural_baseline |-> r.natural_baseline]
     /\ request' = r.req.lines
     /\ passes' = NoPasses
     /\ emitted' = << >>
     /\ call' = [name |-> "gtk_grid_get_size_for_size",
                 orientation |-> orientation, size |-> size,
                 again |-> /\ call.name = "gtk_grid_get_size_for_size"
                           /\ call.orientation = orientation
                           /\ call.size = size]
     /\ UNCHANGED << children, row_properties, baseline_row, linedata,
                     allocated_baseline, allocation, direction, grid_visible >>

\* gtk_widget_size_allocate_with_baseline on the grid: the framework records
\* the baseline, gtk_grid_size_allocate the allocation
SizeAllocate(width, height, baseline, request_mode) ==
  LET a == [x |-> 0, y |-> 0, width |-> width, height |-> height]
  IN \E r \in {gtk_grid_size_allocate(
                 [Grid EXCEPT !.allocation = a, !.allocated_baseline = baseline],
                 request_mode)} :
     /\ allocation' = a
     /\ allocated_baseline' = baseline
     /\ request' = r.req.lines
     /\ passes' = NoPasses
     /\ emitted' = r.children
     /\ ret' = NoSize
     /\ call' = [name |-> "gtk_grid_size_allocate", request_mode |-> request_mode]
     /\ UNCHANGED << children, row_properties, baseline_row, linedata, direction, grid_visible >>

----------------------------------------------------------------------------
(* The callers: applications that build a grid and the framework that      *)
(* queries and allocates it                                                *)

\* the attachments tried lie in the lines 0 .. MaxLine - 1
MaxLine == 3

\* the attachments [pos, span] within n lines
Places(n) ==
  {[pos |-> p, span |-> sp] : p \in 0 .. n - 1, sp \in 1 .. n} \ 
  {pl \in [pos : 0 .. n - 1, span : 1 .. n] : pl.pos + pl.span > n}

Spacings == {0, 5}

\* what a caller's out-parameters may hold before a size query
Garbage == {NoSize, [minimum |-> 7, natural |-> 7,
                     minimum_baseline |-> 7, natural_baseline |-> 7]}

\* An application attaches the widgets of pool (a sequence of sets of
\* variants of a widget) in the order of the pool, leaving out any of them:
\* the widget attached is a variant of pool[k].
AttachInOrder(pool, k, w, left, top, width, height) ==
  /\ w \in pool[k]
  /\ \A i \in DOMAIN children :
       \E j \in 1 .. k - 1 : \E v \in pool[j] : v.name = children[i].widget.name
  /\ gtk_grid_attach(w, left, top, width, height)

\* Three widgets in a row each: "a" wants 10 to 40 wide and one column, "b" 20
\* wide and to expand, shown or hidden, "s" 50 wide.
ColumnWidgets ==
  << {Widget("a", TRUE, FALSE, FALSE, 10, 40, 10, 10, -1, -1, 0)},
     {Widget("b", vis, TRUE, FALSE, 20, 20, 10, 10, -1, -1, 0) : vis \in BOOLEAN},
     {Widget("s", TRUE, FALSE, FALSE, 50, 50, 10, 10, -1, -1, 0)} >>

AttachColumns ==
  \E k \in DOMAIN ColumnWidgets : \E w \in ColumnWidgets[k] : \E pl \in Places(MaxLine) :
    /\ w.name = "a" => pl.span = 1
    /\ AttachInOrder(ColumnWidgets, k, w, pl.pos, k - 1, pl.span, 1)

SetColumnSpacing == \E sp \in Spacings : gtk_grid_set_spacing(GTK_ORIENTATION_HORIZONTAL, sp)

SetColumnHomogeneous ==
  \E h \in BOOLEAN : gtk_grid_set_homogeneous(GTK_ORIENTATION_HORIZONTAL, h)

\* the caller passes the variables that hold the last answer
GetWidth == GetSize(GTK_ORIENTATION_HORIZONTAL, ret)

Next ==
  \/ AttachColumns
  \/ SetColumnSpacing
  \/ SetColumnHomogeneous
  \/ GetWidth

Spec == Init /\ [][Next]_vars

\* A shown widget "a" and a hidden widget "i", each attached on the diagonal
\* (the same place and span in both orientations); both orientations are
\* configured and queried.
SingleWidgets ==
  << {Widget("a", TRUE, FALSE, FALSE, 10, 40, 12, 30, -1, -1, 0)},
     {Widget("i", FALSE, FALSE, FALSE, 30, 30, 30, 30, -1, -1, 0)} >>

AttachDiagonal ==
  \E k \in DOMAIN SingleWidgets : \E w \in SingleWidgets[k] : \E pl \in Places(MaxLine) :
    AttachInOrder(SingleWidgets, k, w, pl.pos, pl.pos, pl.span, pl.span)

SetSpacing == \E o \in Orientations : \E sp \in Spacings : gtk_grid_set_spacing(o, sp)

SetHomogeneous == \E o \in Orientations : \E h \in BOOLEAN : gtk_grid_set_homogeneous(o, h)

GetPreferredSize == \E o \in Orientations : GetSize(o, ret)

NextSingle ==
  \/ AttachDiagonal
  \/ SetSpacing
  \/ SetHomogeneous
  \/ GetPreferredSize

SpecSingle == Init /\ [][NextSingle]_vars

\* Three widgets in a column each: "t" is 20 to 24 high and has no baseline,
\* the label "l" is 12 to 14 high with its baseline at 8 to 9 and wraps (6
\* more when narrower than 30), "m" is 10 high with its baseline at 3.
RowWidgets ==
  << {Widget("t", TRUE, FALSE, FALSE, 10, 10, 20, 24, -1, -1, 0)},
     {Widget("l", TRUE, FALSE, FALSE, 10, 30, 12, 14, 8, 9, 6)},
     {Widget("m", TRUE, FALSE, FALSE, 10, 10, 10, 10, 3, 3, 0)} >>

AttachRows ==
  \E k \in DOMAIN RowWidgets : \E w \in RowWidgets[k] : \E pl \in Places(MaxLine) :
    /\ w.name # "m" => pl.span = 1
    /\ AttachInOrder(RowWidgets, k, w, k - 1, pl.pos, 1, pl.span)

\* the rows whose baseline position is set, and the rows made the baseline row
PolicyRows == {0}
BaselineRows == {0, 1}

SetRowBaselinePosition ==
  \E row \in PolicyRows : \E pos \in BaselinePositions :
    gtk_grid_set_row_baseline_position(row, pos)

SetBaselineRow == \E row \in BaselineRows : gtk_grid_set_baseline_row(row)

GetHeight == GetSize(GTK_ORIENTATION_VERTICAL, ret)

NextBaseline ==
  \/ AttachRows
  \/ SetRowBaselinePosition
  \/ SetBaselineRow
  \/ GetHeight

SpecBaseline == Init /\ [][NextBaseline]_vars

\* The framework asks a grid of "t" and "l", each in one row, for its sizes:
\* the out-parameters it passes hold anything.
QueryWidgets == SubSeq(RowWidgets, 1, 2)

AttachQueried ==
  \E k \in DOMAIN QueryWidgets : \E w \in QueryWidgets[k] : \E top \in 0 .. MaxLine - 1 :
    AttachInOrder(QueryWidgets, k, w, k - 1, top, 1, 1)

SetRowHomogeneous ==
  \E h \in BOOLEAN : gtk_grid_set_homogeneous(GTK_ORIENTATION_VERTICAL, h)

\* the sizes the size in the other orientation is asked for
ForSizes == {10, 30}

GetAnySize == \E o \in Orientations : \E out \in Garbage : GetSize(o, out)

GetAnySizeForSize ==
  \E o \in Orientations : \E size \in ForSizes : \E out \in Garbage :
    GetSizeForSize(o, size, out)

NextQueries ==
  \/ AttachQueried
  \/ SetBaselineRow
  \/ SetRowHomogeneous
  \/ GetAnySize
  \/ GetAnySizeForSize

SpecQueries == Init /\ [][NextQueries]_vars

\* the grid has not been allocated since it was made: an application builds
\* its grid before the grid is shown
Unallocated == allocation.width = 1 /\ allocation.height = 1

\* The columns of a, b and s, all shown, are given 100 or 101 in width (no
\* less than their minimum, which is at most 90) and no baseline.
ShownColumnWidgets ==
  [k \in DOMAIN ColumnWidgets |-> {w \in ColumnWidgets[k] : w.visible}]

AttachShownColumns ==
  \E k \in DOMAIN ShownColumnWidgets : \E w \in ShownColumnWidgets[k] :
    \E pl \in Places(MaxLine) :
      /\ Unallocated
      /\ w.name = "a" => pl.span = 1
      /\ AttachInOrder(ShownColumnWidgets, k, w, pl.pos, k - 1, pl.span, 1)

SetShownColumnSpacing == Unallocated /\ SetColumnSpacing

SetShownColumnHomogeneous == Unallocated /\ SetColumnHomogeneous

Widths == {100, 101}

AllocateColumns ==
  \E width \in Widths : SizeAllocate(width, 100, -1, GTK_SIZE_REQUEST_HEIGHT_FOR_WIDTH)

NextAllocate ==
  \/ AttachShownColumns
  \/ SetShownColumnSpacing
  \/ SetShownColumnHomogeneous
  \/ AllocateColumns

SpecAllocate == Init /\ [][NextAllocate]_vars

\* The label "l" in one row and "u", 40 high, over any rows of a column of
\* MaxLine + 1 rows; the grid is given its minimum height for the width 100,
\* or 7 more, and no baseline, the baseline it asked for, or that 7 lower.
TallWidgets ==
  << {Widget("l", TRUE, FALSE, FALSE, 10, 30, 12, 14, 8, 9, 6)},
     {Widget("u", TRUE, FALSE, FALSE, 10, 10, 40, 40, -1, -1, 0)} >>

AttachTall ==
  \E k \in DOMAIN TallWidgets : \E w \in TallWidgets[k] : \E pl \in Places(MaxLine + 1) :
    /\ Unallocated
    /\ w.name = "l" => pl.span = 1
    /\ AttachInOrder(TallWidgets, k, w, k - 1, pl.pos, 1, pl.span)

SetAnyBaselineRow == \E row \in 0 .. MaxLine : Unallocated /\ gtk_grid_set_baseline_row(row)

SetTallHomogeneous == Unallocated /\ SetRowHomogeneous

Extras == {0, 7}

AllocateRows ==
  \E more \in Extras : \E lower \in Extras \cup {-1} :
    \E asked \in {gtk_grid_get_size_for_size(Grid, GTK_ORIENTATION_VERTICAL, 100, NoSize)} :
       /\ lower <= more
       /\ lower # -1 => asked.minimum_baseline # -1
       /\ SizeAllocate(100, asked.minimum + more,
                       IF lower = -1 THEN -1 ELSE asked.minimum_baseline + lower,
                       GTK_SIZE_REQUEST_HEIGHT_FOR_WIDTH)

NextAllocateRows ==
  \/ AttachTall
  \/ SetAnyBaselineRow
  \/ SetTallHomogeneous
  \/ AllocateRows

SpecAllocateRows == Init /\ [][NextAllocateRows]_vars

\* An application builds a grid of up to two widgets and then edits it: "a"
\* is attached in column 0 with any top and height, "b" in row 0 with any
\* left and width, and up to MaxEdits rows and columns are inserted and
\* removed.
MaxEdits == 2

EditWidgets ==
  [a |-> Widget("a", TRUE, FALSE, FALSE, 10, 10, 10, 10, -1, -1, 0),
   b |-> Widget("b", FALSE, FALSE, FALSE, 20, 20, 20, 20, -1, -1, 0)]

EditPositions == -1 .. 1
EditSpans == -1 .. 2
EditLines == -1 .. 2

EditCalls ==
  {"gtk_grid_insert_row", "gtk_grid_remove_row",
   "gtk_grid_insert_column", "gtk_grid_remove_column"}

\* the number of rows and columns inserted and removed so far
Edits == IF call.name \in EditCalls THEN call.edits ELSE 0

AttachAnywhere ==
  /\ Edits = 0
  /\ \E pos \in EditPositions : \E span \in EditSpans :
       \/ gtk_grid_attach_recorded(EditWidgets.a, 0, pos, 1, span)
       \/ gtk_grid_attach_recorded(EditWidgets.b, pos, 0, span, 1)

InsertRow == Edits < MaxEdits /\ \E position \in EditLines : gtk_grid_insert_row(position)

RemoveRow == Edits < MaxEdits /\ \E position \in EditLines : gtk_grid_remove_row(position)

InsertColumn ==
  Edits < MaxEdits /\ \E position \in EditLines : gtk_grid_insert_column(position)

RemoveColumn ==
  Edits < MaxEdits /\ \E position \in EditLines : gtk_grid_remove_column(position)

NextEdit ==
  \/ AttachAnywhere
  \/ InsertRow
  \/ RemoveRow
  \/ InsertColumn
  \/ RemoveColumn

SpecEdit == Init /\ [][NextEdit]_vars

\* The same application with arguments from the whole range of gint: tops,
\* lefts, heights, widths and positions are among ExtremeArguments.
ExtremeArguments == {G_MININT, 0, 1, G_MAXINT}

AttachAtLimits ==
  /\ Edits = 0
  /\ \E pos \in ExtremeArguments : \E span \in ExtremeArguments :
       \/ gtk_grid_attach_recorded(EditWidgets.a, 0, pos, 1, span)
       \/ gtk_grid_attach_recorded(EditWidgets.b, pos, 0, span, 1)

EditAtLimits ==
  /\ Edits < MaxEdits
  /\ \E position \in ExtremeArguments :
       \/ gtk_grid_insert_row(position)
       \/ gtk_grid_remove_row(position)
       \/ gtk_grid_insert_column(position)
       \/ gtk_grid_remove_column(position)

NextLimits ==
  \/ AttachAtLimits
  \/ EditAtLimits

SpecLimits == Init /\ [][NextLimits]_vars

\* The framework queries and allocates a grid that holds "t" and "l", none of
\* them yet, or none of them any more after the removal of their rows.
NextEmptied ==
  \/ AttachQueried
  \/ RemoveRow
  \/ GetAnySize
  \/ GetAnySizeForSize
  \/ AllocateColumns

SpecEmptied == Init /\ [][NextEmptied]_vars

\* The columns of a, b and s, all shown, in a grid that is given less than
\* its minimum, 10 or 11 in width and height, or 100.
NarrowSizes == {10, 11, 100}

AllocateNarrow ==
  \E size \in NarrowSizes : SizeAllocate(size, size, -1, GTK_SIZE_REQUEST_HEIGHT_FOR_WIDTH)

NextNarrow ==
  \/ AttachShownColumns
  \/ SetShownColumnSpacing
  \/ SetShownColumnHomogeneous
  \/ AllocateNarrow

SpecNarrow == Init /\ [][NextNarrow]_vars

\* "t", 20 to 24 high and expanding or not, and the label "l", each in one
\* row of a grid with a row spacing of 0 or 5 that is given its minimum height
\* or 7 more, and no baseline, the baseline it asked for, or that 7 lower.
SplitWidgets ==
  << {Widget("t", TRUE, FALSE, vexpand, 10, 10, 20, 24, -1, -1, 0) : vexpand \in BOOLEAN},
     {Widget("l", TRUE, FALSE, FALSE, 10, 30, 12, 14, 8, 9, 6)} >>

AttachSplit ==
  \E k \in DOMAIN SplitWidgets : \E w \in SplitWidgets[k] : \E top \in 0 .. MaxLine - 1 :
    /\ Unallocated
    /\ AttachInOrder(SplitWidgets, k, w, k - 1, top, 1, 1)

SetSplitSpacing ==
  Unallocated /\ \E sp \in Spacings : gtk_grid_set_spacing(GTK_ORIENTATION_VERTICAL, sp)

NextSplit ==
  \/ AttachSplit
  \/ SetSplitSpacing
  \/ SetAnyBaselineRow
  \/ SetTallHomogeneous
  \/ AllocateRows

SpecSplit == Init /\ [][NextSplit]_vars

\* "a" in one column, "b" hidden in the first column and "s" over any
\* columns, in a grid read from left to right or from right to left, with
\* columns homogeneous or not and 0 or 5 apart, that is given 10, 11 or 100.
DirectedWidgets ==
  [k \in DOMAIN ColumnWidgets |->
     {w \in ColumnWidgets[k] : w.name = "b" <=> ~ w.visible}]

AttachDirected ==
  \E k \in DOMAIN DirectedWidgets : \E w \in DirectedWidgets[k] :
    \E pl \in Places(MaxLine) :
      /\ Unallocated
      /\ w.name = "a" => pl.span = 1
      /\ w.name = "b" => pl.pos = 0 /\ pl.span = 1
      /\ AttachInOrder(DirectedWidgets, k, w, pl.pos, k - 1, pl.span, 1)

\* the application sets the direction of the grid widget, which
\* gtk_grid_request_allocate_children reads
SetDirection ==
  /\ Unallocated
  /\ \E d \in {GTK_TEXT_DIR_LTR, GTK_TEXT_DIR_RTL} : direction' = d
  /\ Forget
  /\ UNCHANGED << children, row_properties, baseline_row, linedata,
                  allocated_baseline, allocation, grid_visible >>

NextDirected ==
  \/ AttachDirected
  \/ SetDirection
  \/ SetShownColumnSpacing
  \/ SetShownColumnHomogeneous
  \/ AllocateNarrow

SpecDirected == Init /\ [][NextDirected]_vars

\* The label "l", shown or hidden, in one row and "m" over any rows, in a
\* grid whose rows are 0 or 5 apart, homogeneous or not, with the baseline
\* row 0 or 1; the framework asks for the sizes of both orientations, for
\* any size or for the size 10 in the other orientation.
ReportingWidgets ==
  << {Widget("l", vis, FALSE, FALSE, 10, 30, 12, 14, 8, 9, 6) : vis \in BOOLEAN},
     RowWidgets[3] >>

AttachReporting ==
  \E k \in DOMAIN ReportingWidgets : \E w \in ReportingWidgets[k] :
    \E pl \in Places(MaxLine) :
      /\ w.name = "l" => pl.span = 1
      /\ AttachInOrder(ReportingWidgets, k, w, k - 1, pl.pos, 1, pl.span)

GetSizeOrSizeForSize ==
  \E o \in Orientations : \E out \in Garbage :
    GetSize(o, out) \/ GetSizeForSize(o, 10, out)

NextReporting ==
  \/ AttachReporting
  \/ SetSplitSpacing
  \/ SetBaselineRow
  \/ SetRowHomogeneous
  \/ GetSizeOrSizeForSize

SpecReporting == Init /\ [][NextReporting]_vars

\* An application shows and hides a grid without children and sets its
\* spacings, its homogeneous flags, its baseline row and the baseline position
\* of row 0.
SetVisible == \E visible \in BOOLEAN : gtk_widget_set_visible(visible)

Configure ==
  \/ \E o \in Orientations : \E spacing \in Spacings :
       gtk_grid_set_spacing_recorded(o, spacing)
  \/ \E o \in Orientations : \E homogeneous \in BOOLEAN :
       gtk_grid_set_homogeneous_recorded(o, homogeneous)
  \/ \E row \in BaselineRows : gtk_grid_set_baseline_row_recorded(row)
  \/ \E row \in PolicyRows : \E pos \in BaselinePositions :
       gtk_grid_set_row_baseline_position_recorded(row, pos)

NextConfigure ==
  \/ SetVisible
  \/ Configure

SpecConfigure == Init /\ [][NextConfigure]_vars

\* An application shows or hides its grid, sets the baseline position of row
\* 0 and attaches "a" (shown) in column 0 and "b" (hidden) in row 0, and then
\* inserts and removes up to MaxEdits rows and columns.
ShowBeforeEdits == Edits = 0 /\ SetVisible

SetPolicyBeforeEdits ==
  /\ Edits = 0
  /\ \E row \in PolicyRows : \E pos \in BaselinePositions :
       gtk_grid_set_row_baseline_position_recorded(row, pos)

AttachBeforeEdits ==
  /\ Edits = 0
  /\ \E pl \in Places(2) :
       \/ gtk_grid_attach_recorded(EditWidgets.a, 0, pl.pos, 1, pl.span)
       \/ gtk_grid_attach_recorded(EditWidgets.b, pl.pos, 0, pl.span, 1)

NextRelayout ==
  \/ ShowBeforeEdits
  \/ SetPolicyBeforeEdits
  \/ AttachBeforeEdits
  \/ InsertRow
  \/ RemoveRow
  \/ InsertColumn
  \/ RemoveColumn

SpecRelayout == Init /\ [][NextRelayout]_vars

\* "z", which asks for no width and no height as an empty container does, in
\* one cell, and "a" over any columns of a row, in a grid of two rows read
\* from left to right, with columns homogeneous or not and 0 or 5 apart, that
\* is given 10, 11 or 100 in width and height.
FlooredWidgets ==
  << {Widget("z", TRUE, FALSE, FALSE, 0, 0, 0, 0, -1, -1, 0)},
     {Widget("a", TRUE, FALSE, FALSE, 10, 40, 10, 10, -1, -1, 0)} >>

AttachFloored ==
  \E k \in DOMAIN FlooredWidgets : \E w \in FlooredWidgets[k] :
    \E pl \in Places(MaxLine) : \E top \in 0 .. 1 :
      /\ Unallocated
      /\ w.name = "z" => pl.span = 1
      /\ AttachInOrder(FlooredWidgets, k, w, pl.pos, top, pl.span, 1)

NextFloored ==
  \/ AttachFloored
  \/ SetShownColumnSpacing
  \/ SetShownColumnHomogeneous
  \/ AllocateNarrow

SpecFloored == Init /\ [][NextFloored]_vars

----------------------------------------------------------------------------
(* Properties of the size request                                          *)

\* line l of `orientation` lies under a visible child
Covered(orientation, l) ==
  \E i \in DOMAIN children :
    /\ children[i].widget.visible
    /\ children[i].attach[orientation].pos <= l
    /\ l < children[i].attach[orientation].pos + children[i].attach[orientation].span

NonEmptyCount(orientation) ==
  Cardinality({i \in DOMAIN request[orientation].lines :
                 Covered(orientation, request[orientation].min + i)})

SpacingTerm(orientation) ==
  IF NonEmptyCount(orientation) = 0 THEN 0
  ELSE linedata[orientation].spacing * (NonEmptyCount(orientation) - 1)

\* the grid holds exactly the visible span-1 children a in column 0 and b in
\* column 1
ScenarioColumns ==
  /\ Len(children) = 2
  /\ \A i \in DOMAIN children :
       /\ children[i].widget.visible
       /\ children[i].attach[GTK_ORIENTATION_HORIZONTAL] =
            [pos |-> IF children[i].widget.name = "a" THEN 0 ELSE 1, span |-> 1]
  /\ linedata[GTK_ORIENTATION_HORIZONTAL].spacing = 5

\* C2: after gtk_grid_get_size on a non-homogeneous orientation the minimum
\* (natural) returned is the sum of the line minimums (naturals) plus the
\* spacing times (number of non-empty lines - 1), and plus nothing when no
\* line is non-empty.
PreferredSizeIsSumOfLines ==
  (call.name = "gtk_grid_get_size" /\ ~ linedata[call.orientation].homogeneous) =>
    LET L == request[call.orientation].lines
    IN /\ ret.minimum = SumOver([i \in DOMAIN L |-> L[i].minimum], DOMAIN L)
                          + SpacingTerm(call.orientation)
       /\ ret.natural = SumOver([i \in DOMAIN L |-> L[i].natural], DOMAIN L)
                          + SpacingTerm(call.orientation)

\* Scenario A: widths 10 and 20 in columns 0 and 1, spacing 5: 35
ScenarioAReached ==
  /\ call.name = "gtk_grid_get_size"
  /\ call.orientation = GTK_ORIENTATION_HORIZONTAL
  /\ ~ linedata[GTK_ORIENTATION_HORIZONTAL].homogeneous
  /\ ScenarioColumns
  /\ ret.minimum = 35

\* exactly one child is visible, and its span is 1 in both orientations
OneVisibleChild(i) ==
  /\ i \in DOMAIN children
  /\ children[i].widget.visible
  /\ \A o \in Orientations : children[i].attach[o].span = 1
  /\ \A j \in DOMAIN children : children[j].widget.visible => j = i

HomogeneousLinesHoldMaximum ==
  (call.name = "gtk_grid_get_size" /\ linedata[call.orientation].homogeneous) =>
    LET L == request[call.orientation].lines
        before == passes.spanning
    IN \A i \in DOMAIN L :
         /\ \A j \in DOMAIN before : before[j].minimum <= L[i].minimum
         /\ \E j \in DOMAIN before : before[j].minimum = L[i].minimum
         /\ \A j \in DOMAIN before : before[j].natural <= L[i].natural
         /\ \E j \in DOMAIN before : before[j].natural = L[i].natural

\* Scenario B: widths 10 and 20 in homogeneous columns 0 and 1, spacing 5: 45
ScenarioBReached ==
  /\ call.name = "gtk_grid_get_size"
  /\ call.orientation = GTK_ORIENTATION_HORIZONTAL
  /\ linedata[GTK_ORIENTATION_HORIZONTAL].homogeneous
  /\ ScenarioColumns
  /\ ret.minimum = 2 * 20 + 5

\* The turn of the spanning pass for child i in the last gtk_grid_get_size,
\* when that child is visible and spans several lines of a non-homogeneous
\* orientation whose total is short of the child's minimum (natural) size:
\* `size` is "minimum" or "natural".
SpanningTurn(i, size) ==
  LET o == call.orientation
      attach == children[i].attach[o]
      first == attach.pos - request[o].min
      spanned == first .. first + attach.span - 1
      before == [j \in spanned |-> IF size = "minimum" THEN passes.steps[i].before[j].minimum
                                   ELSE passes.steps[i].before[j].natural]
      after == [j \in spanned |-> IF size = "minimum" THEN passes.steps[i].after[j].minimum
                                  ELSE passes.steps[i].after[j].natural]
      expanding == {j \in spanned : passes.steps[i].before[j].expand}
      wanted == IF size = "minimum" THEN children[i].widget.minimum[o]
                ELSE children[i].widget.natural[o]
      total == SumOver(before, spanned) + (attach.span - 1) * linedata[o].spacing
  IN [spanned |-> spanned, before |-> before, after |-> after,
      expanding |-> expanding,
      receiving |-> IF expanding = {} THEN spanned ELSE expanding,
      wanted |-> wanted,
      total_after |-> SumOver(after, spanned) + (attach.span - 1) * linedata[o].spacing,
      shortfall |-> wanted - total]

HasSpanningTurn(i, size) ==
  /\ call.name = "gtk_grid_get_size"
  /\ ~ linedata[call.orientation].homogeneous
  /\ i \in DOMAIN children
  /\ children[i].widget.visible
  /\ children[i].attach[call.orientation].span > 1
  /\ SpanningTurn(i, size).shortfall > 0

\* C4: in the non-homogeneous spanning pass, when a visible spanning child's
\* minimum exceeds the total of its spanned lines plus (span-1)*spacing: with no
\* spanned line marked expand every spanned line takes a share of the shortfall
\* (at least shortfall / span, rounded down); with a spanned line marked expand
\* the spanned lines not marked expand keep their minimum; in both cases the
\* spanned total afterwards equals the child's minimum.
SpanningShortfallDistributed ==
  \A i \in DOMAIN children :
    HasSpanningTurn(i, "minimum") =>
      LET t == SpanningTurn(i, "minimum")
          n == Cardinality(t.spanned)
      IN /\ t.expanding = {} =>
              \A j \in t.spanned : t.after[j] >= t.before[j] + CDiv(t.shortfall, n)
         /\ t.expanding # {} =>
              /\ \A j \in t.spanned \ t.expanding : t.after[j] = t.before[j]
              /\ \A j \in t.expanding : t.after[j] >= t.before[j]
         /\ t.total_after = t.wanted

\* a of minimum 10 in column 0, s of minimum 50 over columns 0 and 1, no
\* spacing and no line marked expand: the shortfall 40 goes to both lines
ForcedExpandReached ==
  /\ Len(children) = 2
  /\ linedata[GTK_ORIENTATION_HORIZONTAL].spacing = 0
  /\ HasSpanningTurn(1, "minimum")
  /\ children[1].attach[GTK_ORIENTATION_HORIZONTAL] = [pos |-> 0, span |-> 2]
  /\ children[2].attach[GTK_ORIENTATION_HORIZONTAL] = [pos |-> 0, span |-> 1]
  /\ SpanningTurn(1, "minimum").expanding = {}
  /\ SpanningTurn(1, "minimum").shortfall = 40
  /\ request[GTK_ORIENTATION_HORIZONTAL].lines[0].minimum = 30
  /\ request[GTK_ORIENTATION_HORIZONTAL].lines[1].minimum = 20

\* a in column 0, b marking column 1 expand, s of minimum 50 over both: only
\* the line of b grows
ExpandLinesGrowReached ==
  /\ Len(children) = 3
  /\ linedata[GTK_ORIENTATION_HORIZONTAL].spacing = 0
  /\ HasSpanningTurn(1, "minimum")
  /\ SpanningTurn(1, "minimum").spanned = {0, 1}
  /\ SpanningTurn(1, "minimum").expanding = {1}
  /\ request[GTK_ORIENTATION_HORIZONTAL].lines[0].minimum = 10
  /\ request[GTK_ORIENTATION_HORIZONTAL].lines[1].minimum = 40

\* what line j receives in turn t, and its place among the receiving lines of
\* the turn, counted from 1 in spanned order
Received(t, j) == t.after[j] - t.before[j]
PlaceAmongReceiving(t, j) == Cardinality({k \in t.receiving : k <= j})

Sizes == {"minimum", "natural"}

\* C5 as stated: when the shortfall is not divisible by the number of
\* receiving lines, each receiving line gets floor(shortfall / count) and the
\* remaining units go one per line to the earliest receiving lines.
RemainderToEarliestLines ==
  \A i \in DOMAIN children : \A size \in Sizes :
    HasSpanningTurn(i, size) =>
      LET t == SpanningTurn(i, size)
          n == Cardinality(t.receiving)
      IN t.shortfall % n # 0 =>
           \A j \in t.receiving :
             Received(t, j) = (t.shortfall \div n)
                + (IF PlaceAmongReceiving(t, j) <= t.shortfall % n THEN 1 ELSE 0)

\* C5 amended: each receiving line gets floor(shortfall / count) and the
\* remaining (shortfall mod count) units go one per line to the LAST receiving
\* lines in spanned order; the lines that do not receive keep their size.
RemainderToLastLines ==
  \A i \in DOMAIN children : \A size \in Sizes :
    HasSpanningTurn(i, size) =>
      LET t == SpanningTurn(i, size)
          n == Cardinality(t.receiving)
      IN /\ \A j \in t.receiving :
              Received(t, j) = (t.shortfall \div n)
                 + (IF PlaceAmongReceiving(t, j) > n - (t.shortfall % n) THEN 1 ELSE 0)
         /\ \A j \in t.spanned \ t.receiving : Received(t, j) = 0

\* a of minimum 10 in column 0, s of minimum 50 over columns 0 and 1, spacing
\* 5: the shortfall 35 is split 17 and 18
OddShortfallReached ==
  /\ Len(children) = 2
  /\ HasSpanningTurn(1, "minimum")
  /\ SpanningTurn(1, "minimum").receiving = {0, 1}
  /\ SpanningTurn(1, "minimum").shortfall = 35
  /\ Received(SpanningTurn(1, "minimum"), 0) = 17
  /\ Received(SpanningTurn(1, "minimum"), 1) = 18

----------------------------------------------------------------------------
(* Properties of the baseline split of a row in the non-spanning pass      *)

\* the visible children of one row (span 1) that report a baseline
BaselineChildren(row) ==
  {i \in DOMAIN children :
     /\ children[i].widget.visible
     /\ children[i].attach[GTK_ORIENTATION_VERTICAL] = [pos |-> row, span |-> 1]
     /\ children[i].widget.minimum_baseline # -1}

\* the largest of the values f[i], i in the non-empty set S
Largest(f, S) == CHOOSE v \in {f[i] : i \in S} : \A i \in S : f[i] <= v

\* The baseline split of `row` as the non-spanning pass of the last
\* gtk_grid_get_size left it (above, below, size), and as its children ask
\* for it (above0, below0); extra is what the row's size has beyond
\* above0 + below0.  `size` is "minimum" or "natural".
RowSplit(row, size) ==
  LET line == passes.non_spanning[row - request[GTK_ORIENTATION_VERTICAL].min]
      B == BaselineChildren(row)
      height(i) == IF size = "minimum" THEN children[i].widget.minimum[GTK_ORIENTATION_VERTICAL]
                   ELSE children[i].widget.natural[GTK_ORIENTATION_VERTICAL]
      base(i) == IF size = "minimum" THEN children[i].widget.minimum_baseline
                 ELSE children[i].widget.natural_baseline
      above0 == Largest([i \in B |-> base(i)], B)
      below0 == Largest([i \in B |-> height(i) - base(i)], B)
      total == IF size = "minimum" THEN line.minimum ELSE line.natural
  IN [above |-> IF size = "minimum" THEN line.minimum_above ELSE line.natural_above,
      below |-> IF size = "minimum" THEN line.minimum_below ELSE line.natural_below,
      size |-> total, above0 |-> above0, below0 |-> below0,
      extra |-> total - (above0 + below0)]

\* the rows with a recorded baseline after the last gtk_grid_get_size of the
\* vertical orientation, under the baseline position pos
SplitRows(pos) ==
  IF call.name = "gtk_grid_get_size" /\ call.orientation = GTK_ORIENTATION_VERTICAL
  THEN {row \in {request[GTK_ORIENTATION_VERTICAL].min + i : i \in DOMAIN passes.non_spanning} :
          /\ BaselineChildren(row) # {}
          /\ gtk_grid_get_row_baseline_position(Grid, row) = pos}
  ELSE {}

\* C8 as stated: under CENTER the non-spanning pass adds extra/2 to the part
\* above the baseline and extra/2 to the part below it, for the minimum and
\* for the natural size.
CenterSplitsExtraInHalves ==
  \A row \in SplitRows(GTK_BASELINE_POSITION_CENTER) : \A size \in Sizes :
    LET sp == RowSplit(row, size)
    IN /\ sp.above = sp.above0 + sp.extra \div 2
       /\ sp.below = sp.below0 + sp.extra \div 2

\* Scenario E: above 8, below 4, row minimum 20 under CENTER; the pass leaves
\* above 12 and below 6
ScenarioEReached ==
  /\ 0 \in SplitRows(GTK_BASELINE_POSITION_CENTER)
  /\ RowSplit(0, "minimum").above0 = 8
  /\ RowSplit(0, "minimum").below0 = 4
  /\ RowSplit(0, "minimum").size = 20
  /\ RowSplit(0, "minimum").above = 12
  /\ RowSplit(0, "minimum").below = 6

\* C9: under TOP the non-spanning pass leaves the part above the baseline as
\* the children ask for it and adds all the extra to the part below; under
\* BOTTOM it leaves the part below and adds all the extra to the part above;
\* either way above + below is the row's size afterwards, for the minimum and
\* for the natural size.
TopAndBottomPadOneSide ==
  \A size \in Sizes :
    /\ \A row \in SplitRows(GTK_BASELINE_POSITION_TOP) :
         LET sp == RowSplit(row, size)
         IN /\ sp.above = sp.above0
            /\ sp.below = sp.below0 + sp.extra
            /\ sp.above + sp.below = sp.size
    /\ \A row \in SplitRows(GTK_BASELINE_POSITION_BOTTOM) :
         LET sp == RowSplit(row, size)
         IN /\ sp.below = sp.below0
            /\ sp.above = sp.above0 + sp.extra
            /\ sp.above + sp.below = sp.size

\* row 0 holds t (20 high) and l (12 high, baseline 8) under TOP: above stays
\* 8 and below becomes 12
TopPaddedReached ==
  /\ 0 \in SplitRows(GTK_BASELINE_POSITION_TOP)
  /\ RowSplit(0, "minimum").above0 = 8
  /\ RowSplit(0, "minimum").extra = 8
  /\ RowSplit(0, "minimum").above = 8
  /\ RowSplit(0, "minimum").below = 12

\* the same row under BOTTOM: above becomes 16 and below stays 4
BottomPaddedReached ==
  /\ 0 \in SplitRows(GTK_BASELINE_POSITION_BOTTOM)
  /\ RowSplit(0, "minimum").extra = 8
  /\ RowSplit(0, "minimum").above = 16
  /\ RowSplit(0, "minimum").below = 4

----------------------------------------------------------------------------
(* Properties of repeated size queries                                     *)

Queries == {"gtk_grid_get_size", "gtk_grid_get_size_for_size"}

----------------------------------------------------------------------------
(* Properties of the allocation                                            *)

\* the size the last gtk_grid_size_allocate gave the grid in `orientation`
TotalSize(orientation) == GET_SIZE(allocation, orientation)

\* the preferred minimum of the grid in `orientation`: of the width, and of
\* the height for the width it was given
PreferredMinimum(orientation) ==
  IF orientation = GTK_ORIENTATION_HORIZONTAL
  THEN gtk_grid_get_size(Grid, orientation, NoSize).minimum
  ELSE gtk_grid_get_size_for_size(Grid, orientation, allocation.width, NoSize).minimum

\* the allocations of the lines child i spans, and the spacing between them
SpannedAllocation(i, orientation) ==
  LET attach == children[i].attach[orientation]
      first == attach.pos - request[orientation].min
      spanned == first .. first + attach.span - 1
  IN SumOver([j \in spanned |-> request[orientation].lines[j].allocation], spanned)
       + (attach.span - 1) * linedata[orientation].spacing

\* what child i asks for in `orientation`: for the height, at the width it is
\* given
RequestedMinimum(i, orientation) ==
  compute_request_for_child(Request, children[i], orientation,
                            orientation = GTK_ORIENTATION_VERTICAL).minimum

\* C6 as stated: after gtk_grid_size_allocate with a total size no less than
\* the preferred minimum of an orientation, the lines every visible spanning
\* child spans hold, with the spacing between them, no less than the child's
\* requested minimum.
SpanningChildrenGetTheirMinimum ==
  call.name = "gtk_grid_size_allocate" =>
    \A o \in Orientations : \A i \in DOMAIN children :
      (/\ TotalSize(o) >= PreferredMinimum(o)
       /\ children[i].widget.visible
       /\ children[i].attach[o].span > 1)
      => SpannedAllocation(i, o) >= RequestedMinimum(i, o)

\* u over rows 0..3, the label in row 2, row 2 the baseline row, and the
\* grid given its minimum height and the baseline it asked for: row 3 gets
\* nothing and the rows of u hold less than the 40 it asked for
StarvedSpanningChildReached ==
  /\ call.name = "gtk_grid_size_allocate"
  /\ Len(children) = 2
  /\ children[1].attach[GTK_ORIENTATION_VERTICAL] = [pos |-> 0, span |-> 4]
  /\ children[2].attach[GTK_ORIENTATION_VERTICAL] = [pos |-> 2, span |-> 1]
  /\ baseline_row = 2
  /\ allocated_baseline # -1
  /\ TotalSize(GTK_ORIENTATION_VERTICAL) = PreferredMinimum(GTK_ORIENTATION_VERTICAL)
  /\ request[GTK_ORIENTATION_VERTICAL].lines[3].allocation = 0
  /\ SpannedAllocation(1, GTK_ORIENTATION_VERTICAL) < 40

\* every line is marked empty exactly when no visible child covers it
EmptyMarksAreRight ==
  \A o \in Orientations : \A i \in DOMAIN request[o].lines :
    request[o].lines[i].empty <=> ~ Covered(o, request[o].min + i)

\* the spanning children get their minimum whenever the lines are marked
\* empty as they should be: the shortfall comes with a wrong mark only
StarvedOnlyWhenMismarked ==
  EmptyMarksAreRight => SpanningChildrenGetTheirMinimum

\* the lines of `orientation` were allocated by
\* gtk_grid_distribute_non_homogeneous over the whole range at once
WithoutSplit(orientation) ==
  /\ call.name = "gtk_grid_size_allocate"
  /\ children # << >>
  /\ ~ linedata[orientation].homogeneous
  /\ ~ baseline_split(Request, orientation)

\* the non-empty lines of `orientation`, those marked expand among them, and
\* what the total size has beyond their natural sizes and the spacing
NonEmptyLines(orientation) ==
  {i \in DOMAIN request[orientation].lines : Covered(orientation, request[orientation].min + i)}

ExpandLines(orientation) ==
  {i \in NonEmptyLines(orientation) : request[orientation].lines[i].expand}

Surplus(orientation) ==
  LET L == request[orientation].lines
      N == NonEmptyLines(orientation)
  IN TotalSize(orientation)
       - (SumOver([i \in N |-> L[i].natural], N)
            + (Cardinality(N) - 1) * linedata[orientation].spacing)

\* C7 as stated: in a non-homogeneous allocation without baseline split whose
\* total size is at least the naturals of the lines plus the spacing, every
\* non-empty line not marked expand gets its natural size, and the expand
\* lines share the surplus evenly on top of their natural size, the remainder
\* going one unit each to the earliest of them.
NaturalSizesThenExpand ==
  \A o \in Orientations :
    (WithoutSplit(o) /\ Surplus(o) >= 0) =>
      LET L == request[o].lines
          E == ExpandLines(o)
          n == Cardinality(E)
          place(i) == Cardinality({k \in E : k <= i})
      IN /\ \A i \in NonEmptyLines(o) \ E : L[i].allocation = L[i].natural
         /\ \A i \in E :
              L[i].allocation = L[i].natural + (Surplus(o) \div n)
                                  + (IF place(i) <= Surplus(o) % n THEN 1 ELSE 0)

\* the same, for the grids none of whose lines has a natural size below its
\* minimum: there the allocation is as C7 states
NaturalSizesThenExpandOnSoundLines ==
  \A o \in Orientations :
    (\A i \in DOMAIN request[o].lines :
       request[o].lines[i].natural >= request[o].lines[i].minimum)
    => ((WithoutSplit(o) /\ Surplus(o) >= 0) =>
          LET L == request[o].lines
              E == ExpandLines(o)
              n == Cardinality(E)
              place(i) == Cardinality({k \in E : k <= i})
          IN /\ \A i \in NonEmptyLines(o) \ E : L[i].allocation = L[i].natural
             /\ \A i \in E :
                  L[i].allocation = L[i].natural + (Surplus(o) \div n)
                                      + (IF place(i) <= Surplus(o) % n THEN 1 ELSE 0))

\* Scenario D: a (10 to 40 wide) in column 0, b (expanding) in column 1,
\* total width 100: 40 and 60
ScenarioDReached ==
  /\ WithoutSplit(GTK_ORIENTATION_HORIZONTAL)
  /\ linedata[GTK_ORIENTATION_HORIZONTAL].spacing = 0
  /\ TotalSize(GTK_ORIENTATION_HORIZONTAL) = 100
  /\ Len(children) = 2
  /\ DOMAIN request[GTK_ORIENTATION_HORIZONTAL].lines = {0, 1}
  /\ ExpandLines(GTK_ORIENTATION_HORIZONTAL) = {1}
  /\ request[GTK_ORIENTATION_HORIZONTAL].lines[0].natural = 40
  /\ request[GTK_ORIENTATION_HORIZONTAL].lines[0].allocation = 40
  /\ request[GTK_ORIENTATION_HORIZONTAL].lines[1].allocation = 60

\* a in column 0 and s (50 wide) over columns 0 and 1: column 1 has minimum 20
\* and natural 5, and is given 20
NaturalBelowMinimumReached ==
  /\ WithoutSplit(GTK_ORIENTATION_HORIZONTAL)
  /\ Surplus(GTK_ORIENTATION_HORIZONTAL) >= 0
  /\ Len(children) = 2
  /\ 1 \in DOMAIN request[GTK_ORIENTATION_HORIZONTAL].lines
  /\ request[GTK_ORIENTATION_HORIZONTAL].lines[1].minimum = 20
  /\ request[GTK_ORIENTATION_HORIZONTAL].lines[1].natural = 5
  /\ request[GTK_ORIENTATION_HORIZONTAL].lines[1].allocation = 20

----------------------------------------------------------------------------
(* Properties of the insertion and removal of rows and columns             *)

InsertCall(orientation) ==
  IF orientation = GTK_ORIENTATION_VERTICAL THEN "gtk_grid_insert_row"
  ELSE "gtk_grid_insert_column"

RemoveCall(orientation) ==
  IF orientation = GTK_ORIENTATION_VERTICAL THEN "gtk_grid_remove_row"
  ELSE "gtk_grid_remove_column"

\* the widgets of a list of children
WidgetsOf(list) == {list[i].widget.name : i \in DOMAIN list}

\* the attachment of the widget `name` in a list of children that holds it
AttachOf(list, name) ==
  list[CHOOSE i \in DOMAIN list : list[i].widget.name = name].attach

\* C11: insert_row(r) immediately followed by remove_row(r) leaves the set of
\* children as it was before the insert and gives every child the top and
\* the height it had before the insert; insert_column(c) then
\* remove_column(c) does the same for left and width.
InsertThenRemoveRestores ==
  [][\A o \in Orientations :
       (/\ call.name = InsertCall(o)
        /\ call'.name = RemoveCall(o)
        /\ call'.arguments = call.arguments)
       => /\ WidgetsOf(children') = WidgetsOf(call.children)
          /\ \A name \in WidgetsOf(call.children) :
               AttachOf(children', name)[o] = AttachOf(call.children, name)[o]]_vars

\* "a" of rows 0 and 1 and "b" of row 0: insert_row(1) made "a" three rows
\* high and moved nothing, remove_row(1) made it two rows high again
RowRoundTripReached ==
  /\ call.name = "gtk_grid_remove_row"
  /\ call.arguments = << 1 >>
  /\ call.edits = 2
  /\ WidgetsOf(call.children) = {"a", "b"}
  /\ AttachOf(call.children, "a")[GTK_ORIENTATION_VERTICAL] = [pos |-> 0, span |-> 3]
  /\ WidgetsOf(children) = {"a", "b"}
  /\ AttachOf(children, "a")[GTK_ORIENTATION_VERTICAL] = [pos |-> 0, span |-> 2]
  /\ AttachOf(children, "b")[GTK_ORIENTATION_VERTICAL] = [pos |-> 0, span |-> 1]

\* the other orientation
Across(orientation) == 1 - orientation

\* C12: remove_row(p) (remove_column(p)) removes exactly the children whose
\* span in that orientation is 1 and whose start is p; a child of span > 1
\* that covers p loses one line and keeps its start; a child that starts
\* after p moves back by one line and keeps its span; every other child, and
\* every attachment of the other orientation, is unchanged.
RemoveShiftsAndShrinks ==
  [][\A o \in Orientations :
       call'.name = RemoveCall(o) =>
         LET p == call'.arguments[1]
             gone == {name \in WidgetsOf(children) :
                        AttachOf(children, name)[o] = [pos |-> p, span |-> 1]}
         IN /\ WidgetsOf(children') = WidgetsOf(children) \ gone
            /\ \A name \in WidgetsOf(children) \ gone :
                 LET before == AttachOf(children, name)
                     after == AttachOf(children', name)
                 IN /\ after[Across(o)] = before[Across(o)]
                    /\ after[o] =
                         IF before[o].pos <= p /\ p < before[o].pos + before[o].span
                         THEN [pos |-> before[o].pos, span |-> before[o].span - 1]
                         ELSE IF before[o].pos > p
                         THEN [pos |-> before[o].pos - 1, span |-> before[o].span]
                         ELSE before[o]]_vars

\* "a" in column 0 and "b" over columns -1 and 0: remove_column(0) removed
\* "a" and left "b" column -1
ColumnRemovedReached ==
  /\ call.name = "gtk_grid_remove_column"
  /\ call.arguments = << 0 >>
  /\ WidgetsOf(call.children) = {"a", "b"}
  /\ AttachOf(call.children, "a")[GTK_ORIENTATION_HORIZONTAL] = [pos |-> 0, span |-> 1]
  /\ AttachOf(call.children, "b")[GTK_ORIENTATION_HORIZONTAL] = [pos |-> -1, span |-> 2]
  /\ WidgetsOf(children) = {"b"}
  /\ AttachOf(children, "b")[GTK_ORIENTATION_HORIZONTAL] = [pos |-> -1, span |-> 1]

\* C13: insert_row(p) (insert_column(p)) moves every child whose start is >= p
\* by one line and keeps its span, grows by one line every child that starts
\* before p and ends after p, leaves every child that ends at or before p
\* unchanged, and neither adds nor removes a child.
InsertShiftsAndGrows ==
  [][\A o \in Orientations :
       call'.name = InsertCall(o) =>
         LET p == call'.arguments[1]
         IN /\ Len(children') = Len(children)
            /\ WidgetsOf(children') = WidgetsOf(children)
            /\ \A name \in WidgetsOf(children) :
                 LET before == AttachOf(children, name)
                     after == AttachOf(children', name)
                 IN /\ after[Across(o)] = before[Across(o)]
                    /\ after[o] =
                         IF before[o].pos >= p
                         THEN [pos |-> before[o].pos + 1, span |-> before[o].span]
                         ELSE IF before[o].pos + before[o].span > p
                         THEN [pos |-> before[o].pos, span |-> before[o].span + 1]
                         ELSE before[o]]_vars

\* "a" over rows -1 and 0, "b" in row 0: insert_row(0) made "a" three rows
\* high and moved "b" to row 1
RowInsertedReached ==
  /\ call.name = "gtk_grid_insert_row"
  /\ call.arguments = << 0 >>
  /\ WidgetsOf(call.children) = {"a", "b"}
  /\ AttachOf(call.children, "a")[GTK_ORIENTATION_VERTICAL] = [pos |-> -1, span |-> 2]
  /\ WidgetsOf(children) = {"a", "b"}
  /\ AttachOf(children, "a")[GTK_ORIENTATION_VERTICAL] = [pos |-> -1, span |-> 3]
  /\ AttachOf(children, "b")[GTK_ORIENTATION_VERTICAL] = [pos |-> 1, span |-> 1]

\* C14 as stated: after any sequence of attach (with arbitrary integer
\* arguments), insert_row, insert_column, remove_row and remove_column calls,
\* every child of the grid has span >= 1 in both orientations.
SpansArePositive ==
  \A i \in DOMAIN children : \A o \in Orientations : children[i].attach[o].span >= 1

\* "a" attached G_MAXINT rows high from row 0, then insert_row(1): the height
\* of "a" has become G_MAXINT + 1 in gint
GrownPastLimitReached ==
  /\ call.name = "gtk_grid_insert_row"
  /\ call.arguments = << 1 >>
  /\ WidgetsOf(call.children) = {"a"}
  /\ AttachOf(call.children, "a")[GTK_ORIENTATION_VERTICAL] = [pos |-> 0, span |-> G_MAXINT]
  /\ AttachOf(children, "a")[GTK_ORIENTATION_VERTICAL] = [pos |-> 0, span |-> G_MININT]

\* a child has a span < 1 only after a span of G_MAXINT was grown: no step
\* other than an insertion into a child G_MAXINT lines long makes one
SpansArePositiveBelowLimit ==
  [][(SpansArePositive /\ ~ SpansArePositive') =>
       \E o \in Orientations : \E i \in DOMAIN children :
         /\ call'.name = InsertCall(o)
         /\ children[i].attach[o].span = G_MAXINT
         /\ children'[i].attach[o].span = G_MININT]_vars

\* C15: an attach call with width <= 0, with height <= 0 or with a child
\* that already has a parent does nothing: the list of children and every
\* attachment in it are what they were, so the child has not become a child
\* of the grid by the call, and nothing else of the grid has changed.
RefusedAttachChangesNothing ==
  [][(/\ call'.name = "gtk_grid_attach"
      /\ \/ call'.arguments[3] <= 0
         \/ call'.arguments[4] <= 0
         \/ call'.widget \in WidgetsOf(children))
     => /\ children' = children
        /\ UNCHANGED << row_properties, baseline_row, linedata, grid_visible >>]_vars

\* "b" attached with width 0 to the grid that holds "a": "b" is no child
RefusedAttachReached ==
  /\ call.name = "gtk_grid_attach"
  /\ call.widget = "b"
  /\ call.arguments[3] = 0
  /\ call.arguments[4] = 1
  /\ WidgetsOf(call.children) = {"a"}
  /\ WidgetsOf(children) = {"a"}
  /\ children = call.children

----------------------------------------------------------------------------
(* Properties of the grid without children                                 *)

\* C16: a grid with no children reports minimum 0, natural 0 and baseline -1
\* to every size query, of either orientation and with or without a size of
\* the other orientation, whatever the out-parameters held before, and its
\* allocation emits no child rectangle.
EmptyGridReportsNothing ==
  children = << >> =>
    /\ call.name \in {"gtk_grid_get_size", "gtk_grid_get_size_for_size"} =>
         /\ ret = NoSize
         /\ emitted = << >>
    /\ call.name = "gtk_grid_size_allocate" => emitted = << >>

\* the grid without children was asked for its height for a width
EmptyGridQueried ==
  /\ children = << >>
  /\ call.name = "gtk_grid_get_size_for_size"
  /\ call.orientation = GTK_ORIENTATION_VERTICAL
  /\ ret = NoSize

----------------------------------------------------------------------------
(* Properties of the allocation of the lines and of their positions        *)

\* the place of line i among the non-empty lines, counted from 1
PlaceAmongNonEmpty(orientation, i) ==
  Cardinality({j \in NonEmptyLines(orientation) : j <= i})

\* C17: in a homogeneous allocation without baseline split, with n non-empty
\* lines and B = total_size - (n - 1) * spacing >= 0, every non-empty line is
\* allocated floor(B / n), the first (B mod n) non-empty lines one more, and
\* the empty lines are allocated nothing; the minimums of the lines do not
\* enter.
HomogeneousSharesEvenly ==
  \A o \in Orientations :
    (/\ call.name = "gtk_grid_size_allocate"
     /\ children # << >>
     /\ linedata[o].homogeneous
     /\ ~ baseline_split(Request, o))
    => LET L == request[o].lines
           n == Cardinality(NonEmptyLines(o))
           B == TotalSize(o) - (n - 1) * linedata[o].spacing
       IN (n > 0 /\ B >= 0) =>
            \A i \in DOMAIN L :
              L[i].allocation =
                IF i \in NonEmptyLines(o)
                THEN (B \div n) + (IF PlaceAmongNonEmpty(o, i) <= B % n THEN 1 ELSE 0)
                ELSE 0

\* "a" in column 0 and "s" in column 2, column 1 empty, spacing 0 and 11 in
\* width: column 0 is allocated 6 and column 2 is allocated 5, less than the
\* minimum 50 of its line
SharesBelowMinimumReached ==
  /\ call.name = "gtk_grid_size_allocate"
  /\ linedata[GTK_ORIENTATION_HORIZONTAL].homogeneous
  /\ linedata[GTK_ORIENTATION_HORIZONTAL].spacing = 0
  /\ allocation.width = 11
  /\ Cardinality(DOMAIN request[GTK_ORIENTATION_HORIZONTAL].lines) = 3
  /\ NonEmptyLines(GTK_ORIENTATION_HORIZONTAL) = {0, 2}
  /\ request[GTK_ORIENTATION_HORIZONTAL].lines[0].allocation = 6
  /\ request[GTK_ORIENTATION_HORIZONTAL].lines[1].allocation = 0
  /\ request[GTK_ORIENTATION_HORIZONTAL].lines[2].allocation = 5
  /\ request[GTK_ORIENTATION_HORIZONTAL].lines[2].minimum = 50

\* the rows of the request before the baseline row (part 1) and from the
\* baseline row on (part 2), as indices of the lines array
PartRows(part) ==
  {i \in DOMAIN request[GTK_ORIENTATION_VERTICAL].lines :
     IF part = 1 THEN i + request[GTK_ORIENTATION_VERTICAL].min < baseline_row
     ELSE i + request[GTK_ORIENTATION_VERTICAL].min >= baseline_row}

\* the grid was allocated with a baseline split
SplitInEffect ==
  /\ call.name = "gtk_grid_size_allocate"
  /\ children # << >>
  /\ baseline_split(Request, GTK_ORIENTATION_VERTICAL)

\* The rows of `part` are allocated what they are allocated when the grid is
\* given `more` more in height, and its baseline is `lower` lower: with
\* lower = 0 the budget of part 1 is the same and that of part 2 is `more`
\* larger, with lower = more the budget of part 2 is the same and that of
\* part 1 is `more` larger.
SameAllocationIn(part, more, lower) ==
  With(gtk_grid_size_allocate(
         [Grid EXCEPT !.allocation.height = allocation.height + more,
                      !.allocated_baseline = allocated_baseline + lower],
         call.request_mode).req.lines[GTK_ORIENTATION_VERTICAL].lines,
       LAMBDA L :
         \A i \in PartRows(part) :
           L[i].allocation = request[GTK_ORIENTATION_VERTICAL].lines[i].allocation)

\* C18 as stated: when the baseline split is in effect, the rows before the
\* baseline row and the rows from the baseline row on are each allocated from
\* their own budget, and the allocation of a row of one part does not depend
\* on the budget of the other part, in the homogeneous and in the
\* non-homogeneous distribution.
PartsAllocatedIndependently ==
  SplitInEffect =>
    \A more \in Extras \ {0} :
      /\ SameAllocationIn(1, more, 0)
      /\ SameAllocationIn(2, more, more)

\* the rows of `part` that the allocator holds non-empty
MarkedNonEmpty(part) ==
  {i \in PartRows(part) : ~ request[GTK_ORIENTATION_VERTICAL].lines[i].empty}

\* The smaller of the shares budget / count of the two parts, for n1 > 0
\* rows held non-empty in part 1 and n2 > 0 in part 2 (the share of part 2
\* when n1 = 0).
SplitShare(n1, n2) ==
  LET L == request[GTK_ORIENTATION_VERTICAL]
      spacing == linedata[GTK_ORIENTATION_VERTICAL].spacing
      split_pos == allocated_baseline - L.lines[baseline_row - L.min].minimum_above
      size1 == split_pos - n1 * spacing
      size2 == (allocation.height - split_pos) - (n2 - 1) * spacing
  IN IF n1 = 0 THEN CDiv(size2, n2) ELSE MIN(CDiv(size1, n1), CDiv(size2, n2))

\* C18 amended: when the baseline split is in effect and the rows are not
\* homogeneous, the rows before the baseline row and the rows from the
\* baseline row on are each allocated from their own budget, and the
\* allocation of a row of one part does not depend on the budget of the
\* other part; when the rows are homogeneous, the rows of both parts that
\* the allocator holds non-empty are all allocated the smaller of the two
\* parts' shares budget / count, or one more.
PartsAllocatedIndependentlyUnlessHomogeneous ==
  SplitInEffect =>
    IF linedata[GTK_ORIENTATION_VERTICAL].homogeneous
    THEN /\ MarkedNonEmpty(2) # {}
         /\ \A i \in MarkedNonEmpty(1) \cup MarkedNonEmpty(2) :
              LET share == SplitShare(Cardinality(MarkedNonEmpty(1)),
                                      Cardinality(MarkedNonEmpty(2)))
              IN request[GTK_ORIENTATION_VERTICAL].lines[i].allocation
                   \in {share, share + 1}
    ELSE \A more \in Extras \ {0} :
           /\ SameAllocationIn(1, more, 0)
           /\ SameAllocationIn(2, more, more)

\* "t" in row 0 and "l" in the baseline row 1, homogeneous rows, 47 in
\* height and the baseline at 28: the budgets are 20 and 27, and both rows
\* are allocated 20
SharedShareReached ==
  /\ SplitInEffect
  /\ linedata[GTK_ORIENTATION_VERTICAL].homogeneous
  /\ linedata[GTK_ORIENTATION_VERTICAL].spacing = 0
  /\ baseline_row = 1
  /\ allocation.height = 47
  /\ allocated_baseline = 28
  /\ Cardinality(DOMAIN request[GTK_ORIENTATION_VERTICAL].lines) = 2
  /\ request[GTK_ORIENTATION_VERTICAL].lines[1].minimum_above = 8
  /\ request[GTK_ORIENTATION_VERTICAL].lines[0].allocation = 20
  /\ request[GTK_ORIENTATION_VERTICAL].lines[1].allocation = 20

\* the grid has children and was allocated
Allocated == call.name = "gtk_grid_size_allocate" /\ children # << >>

\* For the lines N of `orientation` taken as the non-empty ones: each of them
\* starts where the one before it ends, plus the spacing, and without a
\* baseline split the first of them starts at 0.
PositionsChain(orientation, N) ==
  LET L == request[orientation].lines
  IN /\ \A i, j \in N :
          (i < j /\ \A k \in N : ~ (i < k /\ k < j)) =>
             L[j].position = L[i].position + L[i].allocation + linedata[orientation].spacing
     /\ (N # {} /\ ~ baseline_split(Request, orientation)) =>
          L[CHOOSE i \in N : \A k \in N : i <= k].position = 0

\* C19 as stated: after position assignment, for every pair of non-empty
\* lines i < j with no non-empty line between them, position[j] =
\* position[i] + allocation[i] + spacing, also across the baseline row after
\* the back-patching; empty lines add neither size nor spacing; without a
\* baseline split the first non-empty line has position 0.  The non-empty
\* lines are the lines that a visible child covers.
PositionsFollowAllocations ==
  Allocated => \A o \in Orientations : PositionsChain(o, NonEmptyLines(o))

\* "u" over rows 0 to 3 and "l" in the baseline row 2: row 3 is covered by
\* "u" and held empty, and its position is 0 while row 2 ends at 35
CoveredRowNotPositionedReached ==
  /\ Allocated
  /\ baseline_split(Request, GTK_ORIENTATION_VERTICAL)
  /\ baseline_row = 2
  /\ Cardinality(DOMAIN request[GTK_ORIENTATION_VERTICAL].lines) = 4
  /\ Covered(GTK_ORIENTATION_VERTICAL, 3)
  /\ request[GTK_ORIENTATION_VERTICAL].lines[3].empty
  /\ request[GTK_ORIENTATION_VERTICAL].lines[3].position = 0
  /\ request[GTK_ORIENTATION_VERTICAL].lines[2].position = 14
  /\ request[GTK_ORIENTATION_VERTICAL].lines[2].allocation = 21

\* the positions follow the allocations of the lines that the allocator
\* holds non-empty, whether or not the marks are right
PositionsFollowAllocationsOfMarkedLines ==
  Allocated =>
    \A o \in Orientations :
      PositionsChain(o, {i \in DOMAIN request[o].lines : ~ request[o].lines[i].empty})

----------------------------------------------------------------------------
(* Properties of the rectangles given to the children                      *)

\* the position of the first line child i spans
FirstPosition(i, orientation) ==
  request[orientation].lines[children[i].attach[orientation].pos
                               - request[orientation].min].position

\* the size of child i: what its lines and the spacing between them hold,
\* and 1 at least
FlooredSize(i, orientation) == MAX(1, SpannedAllocation(i, orientation))

EmittedTo(i) == {k \in DOMAIN emitted : emitted[k].widget = children[i].widget.name}

\* C20: an allocation gives every visible child one rectangle: in each
\* orientation its origin is the position of the first line the child spans
\* and its size the sum of the allocations of the lines spanned plus
\* (span - 1) * spacing, or 1 if that is less; in a grid read from right to
\* left x is the grid's width - that origin - the floored width. A child that
\* is not visible is given no rectangle.
ChildrenGivenTheirLines ==
  Allocated =>
    /\ \A i \in DOMAIN children :
         IF children[i].widget.visible
         THEN /\ Cardinality(EmittedTo(i)) = 1
              /\ \A k \in EmittedTo(i) :
                   /\ emitted[k].width = FlooredSize(i, GTK_ORIENTATION_HORIZONTAL)
                   /\ emitted[k].height = FlooredSize(i, GTK_ORIENTATION_VERTICAL)
                   /\ emitted[k].y = FirstPosition(i, GTK_ORIENTATION_VERTICAL)
                   /\ emitted[k].x =
                        IF direction = GTK_TEXT_DIR_RTL
                        THEN allocation.width
                               - FirstPosition(i, GTK_ORIENTATION_HORIZONTAL)
                               - FlooredSize(i, GTK_ORIENTATION_HORIZONTAL)
                        ELSE FirstPosition(i, GTK_ORIENTATION_HORIZONTAL)
         ELSE EmittedTo(i) = {}
    /\ \A k \in DOMAIN emitted : \E i \in DOMAIN children : k \in EmittedTo(i)

\* a grid read from right to left has been allocated with a hidden child, a
\* child over columns that are apart, and a child whose column holds nothing
MirroredFlooredChildReached ==
  /\ Allocated
  /\ direction = GTK_TEXT_DIR_RTL
  /\ linedata[GTK_ORIENTATION_HORIZONTAL].spacing > 0
  /\ \E i \in DOMAIN children : ~ children[i].widget.visible
  /\ \E i \in DOMAIN children :
       /\ children[i].widget.visible
       /\ children[i].attach[GTK_ORIENTATION_HORIZONTAL].span > 1
  /\ \E i \in DOMAIN children :
       /\ children[i].widget.visible
       /\ SpannedAllocation(i, GTK_ORIENTATION_HORIZONTAL) < 1
       /\ FirstPosition(i, GTK_ORIENTATION_HORIZONTAL) > 0

----------------------------------------------------------------------------
(* Properties of the baseline of an allocation                             *)

\* the line of the configured baseline row, which lies in the range of rows
BaselineRowLine ==
  request[GTK_ORIENTATION_VERTICAL].lines[baseline_row - request[GTK_ORIENTATION_VERTICAL].min]

BaselineRowInRange ==
  /\ baseline_row >= request[GTK_ORIENTATION_VERTICAL].min
  /\ baseline_row < request[GTK_ORIENTATION_VERTICAL].max

\* C21: when the grid is allocated with a baseline b other than -1 and the
\* baseline row holds a visible child of one row that reports a baseline,
\* the position of the baseline row is b - its minimum_above, and its
\* position + its allocated_baseline is b.  A child over more than one row is
\* given the baseline -1, a child in one row the allocated_baseline of its
\* row.
BaselineRowMeetsGivenBaseline ==
  Allocated =>
    /\ (allocated_baseline # -1 /\ BaselineChildren(baseline_row) # {}) =>
         /\ BaselineRowInRange
         /\ BaselineRowLine.position = allocated_baseline - BaselineRowLine.minimum_above
         /\ BaselineRowLine.position + BaselineRowLine.allocated_baseline
              = allocated_baseline
    /\ \A i \in DOMAIN children : \A k \in EmittedTo(i) :
         emitted[k].baseline =
           IF children[i].attach[GTK_ORIENTATION_VERTICAL].span > 1 THEN -1
           ELSE request[GTK_ORIENTATION_VERTICAL].lines[
                  children[i].attach[GTK_ORIENTATION_VERTICAL].pos
                    - request[GTK_ORIENTATION_VERTICAL].min].allocated_baseline

\* the grid was given a baseline; the baseline row, which is not the first
\* row and does not start at 0, holds the label, and another
\* child starts before that row and spans more rows than one
LoweredBaselineReached ==
  /\ Allocated
  /\ allocated_baseline # -1
  /\ BaselineChildren(baseline_row) # {}
  /\ baseline_row > request[GTK_ORIENTATION_VERTICAL].min
  /\ BaselineRowLine.position > 0
  /\ \E i \in DOMAIN children : \E k \in EmittedTo(i) :
       /\ children[i].attach[GTK_ORIENTATION_VERTICAL].pos < baseline_row
       /\ children[i].attach[GTK_ORIENTATION_VERTICAL].span > 1
       /\ emitted[k].baseline = -1

----------------------------------------------------------------------------
(* Properties of the baseline a size query reports                         *)

\* the rows of the request before the baseline row, as indices of the lines
RowsBeforeBaseline ==
  {i \in DOMAIN request[GTK_ORIENTATION_VERTICAL].lines :
     i + request[GTK_ORIENTATION_VERTICAL].min < baseline_row}

\* what the rows before the baseline row hold of `field`, with one row
\* spacing for each of them that a visible child covers, and what the
\* baseline row holds above its baseline
BaselineFromRows(field, above) ==
  LET L == request[GTK_ORIENTATION_VERTICAL].lines
      covered == {i \in RowsBeforeBaseline :
                    Covered(GTK_ORIENTATION_VERTICAL,
                            i + request[GTK_ORIENTATION_VERTICAL].min)}
  IN SumOver([i \in RowsBeforeBaseline |-> L[i][field]], RowsBeforeBaseline)
       + Cardinality(covered) * linedata[GTK_ORIENTATION_VERTICAL].spacing
       + BaselineRowLine[above]

\* C22: a size query of the vertical orientation reports baselines other
\* than -1 exactly when the baseline row holds a visible child of one row
\* that reports a baseline (such a row lies in the range of rows); the
\* minimum baseline is then the sum of the minimums of the rows before the
\* baseline row, plus one row spacing for each of them that is not empty,
\* plus the minimum_above of the baseline row, and likewise the natural
\* baseline.  A query of the horizontal orientation reports no baseline.
BaselineReportedFromBaselineRow ==
  call.name \in Queries =>
    IF call.orientation = GTK_ORIENTATION_HORIZONTAL
    THEN ret.minimum_baseline = -1 /\ ret.natural_baseline = -1
    ELSE IF BaselineChildren(baseline_row) # {}
    THEN /\ BaselineRowInRange
         /\ ret.minimum_baseline # -1
         /\ ret.natural_baseline # -1
         /\ ret.minimum_baseline = BaselineFromRows("minimum", "minimum_above")
         /\ ret.natural_baseline = BaselineFromRows("natural", "natural_above")
    ELSE ret.minimum_baseline = -1 /\ ret.natural_baseline = -1

\* the height was asked of a grid with rows 5 apart whose row 0 holds the
\* hidden label only and whose baseline row 1 holds "m": the baseline
\* reported is that of "m", with nothing for row 0
BaselineAfterEmptyRowReached ==
  /\ call.name \in Queries
  /\ call.orientation = GTK_ORIENTATION_VERTICAL
  /\ linedata[GTK_ORIENTATION_VERTICAL].spacing = 5
  /\ baseline_row = 1
  /\ BaselineChildren(1) # {}
  /\ request[GTK_ORIENTATION_VERTICAL].min = 0
  /\ ~ Covered(GTK_ORIENTATION_VERTICAL, 0)
  /\ ret.minimum_baseline = 3

\* the height was asked of a grid whose baseline row holds the hidden label,
\* or only the start of "m" over two rows: no baseline is reported
NoBaselineFromHiddenOrSpanningReached ==
  /\ call.name \in Queries
  /\ call.orientation = GTK_ORIENTATION_VERTICAL
  /\ BaselineChildren(baseline_row) = {}
  /\ \E i \in DOMAIN children :
       /\ children[i].attach[GTK_ORIENTATION_VERTICAL].pos = baseline_row
       /\ children[i].widget.minimum_baseline # -1

----------------------------------------------------------------------------
(* Properties of the requests for a new layout                             *)

SetterCalls ==
  {"gtk_grid_set_row_spacing", "gtk_grid_set_column_spacing",
   "gtk_grid_set_row_homogeneous", "gtk_grid_set_column_homogeneous",
   "gtk_grid_set_baseline_row"}

\* the children attached before and after the step whose attachment the
\* step changes
Reattached ==
  {n \in WidgetsOf(children) \cap WidgetsOf(children') :
     AttachOf(children, n) # AttachOf(children', n)}

\* the step is a call of a mutator that changes what the claim counts as
\* persistent layout data
ChangesLayoutData ==
  \/ call'.name \in SetterCalls /\ << linedata, baseline_row >>' # << linedata, baseline_row >>
  \/ /\ call'.name = "gtk_grid_set_row_baseline_position"
     /\ gtk_grid_get_row_baseline_position([row_properties |-> row_properties'],
                                           call'.arguments[1])
          # gtk_grid_get_row_baseline_position([row_properties |-> row_properties],
                                               call'.arguments[1])
  \/ call'.name \in EditCalls /\ Reattached # {}

\* C23 as stated: every call of a mutator that changes persistent layout
\* data (the spacings, the homogeneous flags, the baseline row, the baseline
\* position of a row, and by inserting or removing a row or column the
\* attachment of some child) asks for a resize before it returns.
MutatorsAskForResize ==
  [][ChangesLayoutData => call'.queue_resize # {}]_vars

\* gtk_grid_insert_row has moved or grown a visible child of a visible grid
\* and has asked for no resize
InsertedWithoutResizeReached ==
  /\ call.name = "gtk_grid_insert_row"
  /\ grid_visible
  /\ \E n \in WidgetsOf(children) \cap WidgetsOf(call.children) :
       /\ AttachOf(children, n) # AttachOf(call.children, n)
       /\ \E i \in DOMAIN children :
            children[i].widget.name = n /\ children[i].widget.visible
  /\ call.queue_resize = {}

\* what the code does ask for: a setter that changes its value asks for a
\* resize of the grid if and only if the grid is visible; removing a row or
\* column asks for a resize of every visible child it keeps and, if it
\* removes a visible child, of the grid, in a grid that is visible; inserting
\* a row or column asks for none.
ResizeAskedOfVisibleGrid ==
  [][/\ (call'.name \in SetterCalls \cup {"gtk_grid_set_row_baseline_position"}) =>
          call'.queue_resize = IF ChangesLayoutData /\ grid_visible THEN {"grid"} ELSE {}
     /\ (call'.name \in {"gtk_grid_remove_row", "gtk_grid_remove_column"}) =>
          call'.queue_resize =
            IF ~ grid_visible THEN {}
            ELSE {children'[i].widget.name :
                    i \in {j \in DOMAIN children' : children'[j].widget.visible}}
                 \cup (IF \E i \in DOMAIN children :
                             /\ children[i].widget.visible
                             /\ children[i].widget.name \notin WidgetsOf(children')
                        THEN {"grid"} ELSE {})
     /\ (call'.name \in {"gtk_grid_insert_row", "gtk_grid_insert_column"}) =>
          call'.queue_resize = {}]_vars

----------------------------------------------------------------------------
(* Properties of the marks of empty lines                                  *)

\* the last pass has left lines in the request
LinesMarked ==
  /\ call.name \in Queries \cup {"gtk_grid_size_allocate"}
  /\ children # << >>

\* C24 as stated: every invocation of gtk_grid_request_compute_expand, those
\* on the windows [min, baseline_row) and [baseline_row, max) of the baseline
\* split included, marks a line of its window empty if and only if no
\* visible child, of one line or more, covers it; so a row at or after the
\* baseline row under a visible spanning child that starts two or more rows
\* before the baseline row is marked non-empty.  The marks are read from the
\* lines the last pass has left: each line holds the mark of the last
\* invocation whose window it lies in.
EmptyExactlyWhenNotCovered ==
  LinesMarked =>
    \A o \in Orientations : \A i \in DOMAIN request[o].lines :
      request[o].lines[i].empty <=> ~ Covered(o, request[o].min + i)

\* the rows were allocated in two windows, and a row of the second window is
\* marked empty under a visible child that starts two or more rows before
\* the baseline row
CoveredRowMarkedEmptyReached ==
  /\ SplitInEffect
  /\ \E i \in PartRows(2) : \E c \in DOMAIN children :
       /\ request[GTK_ORIENTATION_VERTICAL].lines[i].empty
       /\ children[c].widget.visible
       /\ children[c].attach[GTK_ORIENTATION_VERTICAL].pos + 1 < baseline_row
       /\ children[c].attach[GTK_ORIENTATION_VERTICAL].pos
            <= i + request[GTK_ORIENTATION_VERTICAL].min
       /\ i + request[GTK_ORIENTATION_VERTICAL].min
            < children[c].attach[GTK_ORIENTATION_VERTICAL].pos
                + children[c].attach[GTK_ORIENTATION_VERTICAL].span

\* the marks are wrong in that case only: without the two windows, and in
\* the first window, and in the second window where no visible spanning
\* child starts two or more rows before the baseline row, a line is marked
\* empty if and only if no visible child covers it
EmptyExactlyWhenNotCoveredElsewhere ==
  LinesMarked =>
    \A o \in Orientations : \A i \in DOMAIN request[o].lines :
      (\/ ~ baseline_split(Request, o)
       \/ i \in PartRows(1)
       \/ ~ \E c \in DOMAIN children :
              /\ children[c].widget.visible
              /\ children[c].attach[o].span > 1
              /\ children[c].attach[o].pos + 1 < baseline_row) =>
        (request[o].lines[i].empty <=> ~ Covered(o, request[o].min + i))

----------------------------------------------------------------------------
(* Properties of the range of lines                                        *)

\* the range gtk_grid_request_count_lines computes for the grid as it is
CountedLines == gtk_grid_request_count_lines(Grid)

\* C25: whenever the grid has a child, in each orientation max > min, min is
\* the smallest start and max the largest end (start + span) of the
\* attachments of all children, visible or not, and every index pos - min + i
\* with 0 <= i < span that the passes take from the attachment of a child
\* lies in 0 .. max - min - 1; the lines of a pass are those of that range.
LineRangeHoldsEveryChild ==
  children # << >> =>
    \A o \in Orientations :
      LET min == CountedLines[o].min
          max == CountedLines[o].max
      IN /\ max > min
         /\ \A c \in DOMAIN children :
              /\ min <= children[c].attach[o].pos
              /\ children[c].attach[o].pos + children[c].attach[o].span <= max
              /\ \A i \in 0 .. children[c].attach[o].span - 1 :
                   /\ 0 <= children[c].attach[o].pos - min + i
                   /\ children[c].attach[o].pos - min + i < max - min
         /\ \E c \in DOMAIN children : children[c].attach[o].pos = min
         /\ \E c \in DOMAIN children :
              children[c].attach[o].pos + children[c].attach[o].span = max
         /\ (LinesMarked /\ request[o].lines # << >>) =>
              /\ request[o].min = min
              /\ request[o].max = max
              /\ DOMAIN request[o].lines = 0 .. max - min - 1

\* a grid was allocated whose first column holds the hidden child only, and
\* whose last column is the end of a child over more than one column
HiddenChildStartsRangeReached ==
  /\ Allocated
  /\ \E c \in DOMAIN children :
       /\ ~ children[c].widget.visible
       /\ children[c].attach[GTK_ORIENTATION_HORIZONTAL].pos
            = request[GTK_ORIENTATION_HORIZONTAL].min
       /\ \A d \in DOMAIN children :
            d # c => children[d].attach[GTK_ORIENTATION_HORIZONTAL].pos
                       > children[c].attach[GTK_ORIENTATION_HORIZONTAL].pos
  /\ \E c \in DOMAIN children :
       /\ children[c].attach[GTK_ORIENTATION_HORIZONTAL].span > 1
       /\ children[c].attach[GTK_ORIENTATION_HORIZONTAL].pos
            + children[c].attach[GTK_ORIENTATION_HORIZONTAL].span
            = request[GTK_ORIENTATION_HORIZONTAL].max

----------------------------------------------------------------------------
(* Properties of the natural sizes                                         *)

\* every child reports a natural size no less than its minimum, which is
\* no less than 0, whatever size it is asked for
ChildrenReportSoundSizes ==
  \A c \in DOMAIN children : \A o \in Orientations :
    /\ children[c].widget.minimum[o] >= 0
    /\ children[c].widget.natural[o] >= children[c].widget.minimum[o]
    /\ children[c].widget.wrap >= 0

\* C26 as stated: if every child reports natural >= minimum >= 0, then after
\* the size request of a query every line has natural >= minimum, and the
\* natural size the grid reports is no less than the minimum it reports,
\* whatever the spans, the expand flags, the spacing and the homogeneous
\* flag.
NaturalNoLessThanMinimum ==
  (call.name \in Queries /\ ChildrenReportSoundSizes) =>
    /\ \A i \in DOMAIN request[call.orientation].lines :
         request[call.orientation].lines[i].natural
           >= request[call.orientation].lines[i].minimum
    /\ ret.natural >= ret.minimum

\* the width was asked of a grid with "a" in column 0 and "s" over columns 0
\* and 1: column 1 is left with the minimum 20 and the natural size 5
LineNaturalBelowMinimumReached ==
  /\ call.name = "gtk_grid_get_size"
  /\ call.orientation = GTK_ORIENTATION_HORIZONTAL
  /\ ChildrenReportSoundSizes
  /\ Len(children) = 2
  /\ 1 \in DOMAIN request[GTK_ORIENTATION_HORIZONTAL].lines
  /\ request[GTK_ORIENTATION_HORIZONTAL].lines[1].minimum = 20
  /\ request[GTK_ORIENTATION_HORIZONTAL].lines[1].natural = 5

\* the sizes the grid reports are sound all the same
ReportedNaturalNoLessThanMinimum ==
  (call.name \in Queries /\ ChildrenReportSoundSizes) => ret.natural >= ret.minimum

\* and so are the lines as long as no child spans more than one of them
LineNaturalNoLessThanMinimumWithoutSpans ==
  (/\ call.name \in Queries
   /\ ChildrenReportSoundSizes
   /\ \A c \in DOMAIN children : children[c].attach[call.orientation].span = 1) =>
    \A i \in DOMAIN request[call.orientation].lines :
      request[call.orientation].lines[i].natural
        >= request[call.orientation].lines[i].minimum

----------------------------------------------------------------------------
(* Properties of the children that are not visible                         *)

\* the grid with its visible children only
GridOfVisibleChildren ==
  [Grid EXCEPT !.children = SelectSeq(children, LAMBDA child : child.widget.visible)]

\* the sum of `field` over the lines of the last pass a visible child covers
SumOfCoveredLines(orientation, field) ==
  LET N == NonEmptyLines(orientation)
  IN SumOver([i \in N |-> request[orientation].lines[i][field]], N)

\* C27 as stated: the preferred size depends only on the visible children. A
\* line no visible child covers adds nothing to the minimum and the natural
\* size the grid reports, and no spacing, so the grid reports what it
\* reports without its invisible children, homogeneous or not.
PreferredSizeOfVisibleChildrenOnly ==
  call.name = "gtk_grid_get_size" =>
    /\ ret.minimum = SumOfCoveredLines(call.orientation, "minimum")
                       + SpacingTerm(call.orientation)
    /\ ret.natural = SumOfCoveredLines(call.orientation, "natural")
                       + SpacingTerm(call.orientation)
    /\ ret.minimum = gtk_grid_get_size(GridOfVisibleChildren, call.orientation, NoSize).minimum
    /\ ret.natural = gtk_grid_get_size(GridOfVisibleChildren, call.orientation, NoSize).natural

\* the width was asked of a grid of homogeneous columns with "a" in column
\* 0 and the invisible "i" in column 1: it is twice the width of "a"
InvisibleChildWidensReached ==
  /\ call.name = "gtk_grid_get_size"
  /\ call.orientation = GTK_ORIENTATION_HORIZONTAL
  /\ linedata[GTK_ORIENTATION_HORIZONTAL].homogeneous
  /\ Len(children) = 2
  /\ \E c, d \in DOMAIN children :
       /\ children[c].widget.visible
       /\ children[c].attach[GTK_ORIENTATION_HORIZONTAL] = [pos |-> 0, span |-> 1]
       /\ ~ children[d].widget.visible
       /\ children[d].attach[GTK_ORIENTATION_HORIZONTAL] = [pos |-> 1, span |-> 1]
  /\ ~ Covered(GTK_ORIENTATION_HORIZONTAL, 1)
  /\ ret.minimum = 20
  /\ ret.natural = 80
  /\ gtk_grid_get_size(GridOfVisibleChildren, GTK_ORIENTATION_HORIZONTAL, NoSize).minimum = 10

\* the same holds of the lines that are not homogeneous
PreferredSizeOfVisibleChildrenOnlyNotHomogeneous ==
  (call.name = "gtk_grid_get_size" /\ linedata[call.orientation].homogeneous)
    \/ PreferredSizeOfVisibleChildrenOnly

----------------------------------------------------------------------------
(* Properties of the sum of the allocations                                *)

\* an allocation of `orientation` without baseline split, of a total size no
\* less than the preferred minimum, with a line that a visible child covers
AllocatedEnough(orientation) ==
  /\ Allocated
  /\ ~ baseline_split(Request, orientation)
  /\ NonEmptyLines(orientation) # {}
  /\ TotalSize(orientation) >= PreferredMinimum(orientation)

\* the allocations of the non-empty lines and the spacing between them
UsedSize(orientation) ==
  LET N == NonEmptyLines(orientation)
  IN SumOver([i \in N |-> request[orientation].lines[i].allocation], N)
       + (Cardinality(N) - 1) * linedata[orientation].spacing

\* C28: in an allocation without baseline split whose total size is no less
\* than the preferred minimum and that has a non-empty line, the allocations
\* of the non-empty lines plus one spacing between them never exceed the total
\* size, and equal it when the orientation is homogeneous or a line is marked
\* expand.
AllocationsFillTotalSize ==
  \A o \in Orientations :
    AllocatedEnough(o) =>
      /\ UsedSize(o) <= TotalSize(o)
      /\ (\/ linedata[o].homogeneous
          \/ \E i \in DOMAIN request[o].lines : request[o].lines[i].expand)
           => UsedSize(o) = TotalSize(o)

\* a grid 101 wide with columns 5 apart, not homogeneous, two of them marked
\* expand: they share what the natural sizes leave and the odd pixel, and the
\* columns and the spacing fill the 101
ExpandColumnsFillOddWidthReached ==
  /\ AllocatedEnough(GTK_ORIENTATION_HORIZONTAL)
  /\ ~ linedata[GTK_ORIENTATION_HORIZONTAL].homogeneous
  /\ linedata[GTK_ORIENTATION_HORIZONTAL].spacing = 5
  /\ TotalSize(GTK_ORIENTATION_HORIZONTAL) = 101
  /\ Cardinality(ExpandLines(GTK_ORIENTATION_HORIZONTAL)) = 2
  /\ UsedSize(GTK_ORIENTATION_HORIZONTAL) = 101
  /\ \E i, j \in ExpandLines(GTK_ORIENTATION_HORIZONTAL) :
       request[GTK_ORIENTATION_HORIZONTAL].lines[i].allocation
         = request[GTK_ORIENTATION_HORIZONTAL].lines[j].allocation + 1

\* a grid 100 wide none of whose columns is marked expand: the columns hold
\* their natural sizes and leave the rest of the 100 unused
NaturalColumnsLeaveRestReached ==
  /\ AllocatedEnough(GTK_ORIENTATION_HORIZONTAL)
  /\ ~ linedata[GTK_ORIENTATION_HORIZONTAL].homogeneous
  /\ ExpandLines(GTK_ORIENTATION_HORIZONTAL) = {}
  /\ UsedSize(GTK_ORIENTATION_HORIZONTAL) < TotalSize(GTK_ORIENTATION_HORIZONTAL)

----------------------------------------------------------------------------
(* Properties of the baseline positions of inserted and removed rows       *)

\* what gtk_grid_get_row_baseline_position returns for `row` when the row
\* properties are `props`
RowBaselinePosition(props, row) ==
  gtk_grid_get_row_baseline_position([row_properties |-> props], row)

\* the rows asked about
SettingRows == -2 .. 3

\* C29 as stated: the baseline position set for a row follows the row.
\* insert_row(p) moves the setting of every row >= p to row + 1 and leaves
\* the rows < p as they are; remove_row(p) moves the setting of every row > p
\* to row - 1; so remove_row(p) right after insert_row(p) gives every row the
\* baseline position it had before the insert.
RowSettingsFollowRows ==
  [][/\ call'.name = "gtk_grid_insert_row" =>
          \A row \in SettingRows :
            RowBaselinePosition(row_properties',
                                IF row >= call'.arguments[1] THEN row + 1 ELSE row)
              = RowBaselinePosition(row_properties, row)
     /\ call'.name = "gtk_grid_remove_row" =>
          \A row \in SettingRows :
            row > call'.arguments[1] =>
              RowBaselinePosition(row_properties', row - 1)
                = RowBaselinePosition(row_properties, row)
     /\ (/\ call.name = "gtk_grid_insert_row"
         /\ call'.name = "gtk_grid_remove_row"
         /\ call'.arguments = call.arguments) =>
          \A row \in SettingRows :
            RowBaselinePosition(row_properties', row)
              = RowBaselinePosition(row_properties,
                                    IF row >= call.arguments[1] THEN row + 1 ELSE row)]_vars

\* row 0 was set to TOP, insert_row(0) moved the setting to row 1, and after
\* remove_row(0) it is still at row 1: row 0 is back at the default
SettingLeftBehindReached ==
  /\ call.name = "gtk_grid_remove_row"
  /\ call.arguments = << 0 >>
  /\ call.edits = 2
  /\ RowBaselinePosition(row_properties, 1) = GTK_BASELINE_POSITION_TOP
  /\ RowBaselinePosition(row_properties, 0) = GTK_BASELINE_POSITION_CENTER

\* what the code does: gtk_grid_insert_row moves the settings as stated, and
\* no other insertion or removal changes the baseline position of any row
RowSettingsFollowInsertedRowsOnly ==
  [][/\ call'.name = "gtk_grid_insert_row" =>
          \A row \in SettingRows :
            RowBaselinePosition(row_properties',
                                IF row >= call'.arguments[1] THEN row + 1 ELSE row)
              = RowBaselinePosition(row_properties, row)
     /\ call'.name \in EditCalls \ {"gtk_grid_insert_row"} =>
          row_properties' = row_properties]_vars

----------------------------------------------------------------------------
(* Properties of the rectangles of the children                            *)

\* the half-open intervals [p, p + m) and [q, q + n) have a point in common
Overlap(p, m, q, n) == p < q + n /\ q < p + m

\* the cells of the children i and j have a cell in common
CellsOverlap(i, j) ==
  \A o \in Orientations :
    Overlap(children[i].attach[o].pos, children[i].attach[o].span,
            children[j].attach[o].pos, children[j].attach[o].span)

\* the rectangles k and l of the emitted ones have a pixel in common
RectanglesOverlap(k, l) ==
  /\ Overlap(emitted[k].x, emitted[k].width, emitted[l].x, emitted[l].width)
  /\ Overlap(emitted[k].y, emitted[k].height, emitted[l].y, emitted[l].height)

\* an allocation of a grid read from left to right that is given no less
\* than its preferred minimum in width and in height
AllocatedEnoughLeftToRight ==
  /\ Allocated
  /\ direction = GTK_TEXT_DIR_LTR
  /\ \A o \in Orientations : TotalSize(o) >= PreferredMinimum(o)

\* C30 as stated: after an allocation of a grid read from left to right that
\* is given no less than its preferred minimum in both orientations, two
\* visible children whose cells do not overlap are given rectangles that do
\* not overlap, also when a line is allocated 0 and the floor of 1 pixel
\* applies.
DisjointCellsGivenDisjointRectangles ==
  AllocatedEnoughLeftToRight =>
    \A i, j \in DOMAIN children :
      (/\ i # j
       /\ children[i].widget.visible
       /\ children[j].widget.visible
       /\ ~ CellsOverlap(i, j)) =>
        \A k \in EmittedTo(i) : \A l \in EmittedTo(j) : ~ RectanglesOverlap(k, l)

\* "z" in column 0 and "a" in column 1 of the same row, no spacing: column 0
\* is allocated 0, both columns start at 0, "z" is given 1 pixel of the width
\* of "a"
FlooredChildOverNeighbourReached ==
  /\ AllocatedEnoughLeftToRight
  /\ linedata[GTK_ORIENTATION_HORIZONTAL].spacing = 0
  /\ \E i, j \in DOMAIN children :
       /\ children[i].widget.name = "z"
       /\ children[j].widget.name = "a"
       /\ children[i].attach[GTK_ORIENTATION_HORIZONTAL] = [pos |-> 0, span |-> 1]
       /\ children[j].attach[GTK_ORIENTATION_HORIZONTAL] = [pos |-> 1, span |-> 1]
       /\ children[i].attach[GTK_ORIENTATION_VERTICAL]
            = children[j].attach[GTK_ORIENTATION_VERTICAL]
       /\ SpannedAllocation(i, GTK_ORIENTATION_HORIZONTAL) = 0
       /\ \E k \in EmittedTo(i) : \E l \in EmittedTo(j) :
            /\ emitted[k].x = 0 /\ emitted[k].width = 1
            /\ emitted[l].x = 0 /\ emitted[l].width >= 10
            /\ RectanglesOverlap(k, l)

\* what the code does keep apart: the children whose lines hold 1 pixel or
\* more in both orientations, for which the floor does not apply
DisjointCellsGivenDisjointRectanglesUnlessFloored ==
  AllocatedEnoughLeftToRight =>
    \A i, j \in DOMAIN children :
      (/\ i # j
       /\ children[i].widget.visible
       /\ children[j].widget.visible
       /\ ~ CellsOverlap(i, j)
       /\ \A o \in Orientations :
            SpannedAllocation(i, o) >= 1 /\ SpannedAllocation(j, o) >= 1) =>
        \A k \in EmittedTo(i) : \A l \in EmittedTo(j) : ~ RectanglesOverlap(k, l)

====